---- MODULE Spec2Model ----
(***************************************************************************)
(* FRUEC (Fundraising User Event Consumer): the file ledger, the           *)
(* CentralNotice aggregation step, the LandingPage batch writer and the    *)
(* purge of incomplete processing, over a MariaDB store.                   *)
(*                                                                         *)
(* The store is modelled twice: db is what is committed, tx is what the    *)
(* open connection sees (db plus the statements executed since the last    *)
(* commit).  commit copies tx to db, rollback and the loss of the          *)
(* connection copy db to tx.  mysql.connector opens connections with       *)
(* autocommit off, and the code commits and rolls back explicitly.         *)
(***************************************************************************)
EXTENDS Integers, Sequences, FiniteSets, TLC

VARIABLES
    db,         \* the committed store: every table
    tx,         \* the store as seen through db.connection
    pc,         \* where the process is
    event_type, \* the event_type argument of the running call
    todo,       \* controller.consume_events: file_infos not yet visited
    file,       \* the LogFile object being processed
    line_no,    \* log_file_manager.lines: number of the next line
    data,       \* CNAggregationStep._data, in insertion order
    save_pos,   \* CNAggregationStep.save: index in _data of the next cell
    fields,     \* LPWriteStep._event_insert_fields
    cache,      \* db.object_cache._object_cache
    other,      \* cn_event_aggregator._other_project / _other_language
    err,        \* the exception that ended the call, or "none"
    disk        \* the log files on disk (never written by the program)

vars == << db, tx, pc, event_type, todo, file, line_no, data, save_pos,
           fields, cache, other, err, disk >>

-----------------------------------------------------------------------------
(* Bounds *)

\* Values the files table's AUTO_INCREMENT id may take: caps the number of
\* files begun over the whole behaviour.
MaxFileId == 3

-----------------------------------------------------------------------------
(* Values *)

None == "<None>"

CENTRAL_NOTICE == "banner"
LANDING_PAGE == "landingpage"
EventTypes == { CENTRAL_NOTICE, LANDING_PAGE }

PROCESSING == "processing"
CONSUMED == "consumed"

_OTHER_LANGUAGE_CODE == "other"
_OTHER_PROJECT_IDENTIFIER == "other_project"

_CONSUMIBLE_LP_PROJECT_IDENTIFIERS == { "donatewiki" }

\* Configuration handed to consume_events.
detail_languages == { "en" }
\* Mutant of DetailProjectMatch: the test of the pattern is negated.
DetailProjectMatch_negated(identifier) == identifier \notin { "enwiki" }

DetailProjectMatch(identifier) == identifier \in { "enwiki" }
lp_max_batch == 1

\* SQL NULL / Python None in a numeric column or attribute.
NULL == -1

-----------------------------------------------------------------------------
(* Events, as the parsing layer delivers them (fruec.event, fruec.cn_event,
   fruec.lp_event).  An event time is << minute, second >>. *)

InvalidLine ==
    [ valid |-> FALSE, bot |-> FALSE, banner_shown |-> FALSE, testing |-> FALSE,
      time |-> << 0, 0 >>, banner |-> None, campaign |-> None,
      project_identifier |-> None, language_code |-> None,
      country_code |-> None, utm_source |-> None, contact_id |-> None,
      link_id |-> None ]

\* A valid CentralNotice event: statusCode '6', not a bot, not a preview.
CN(min, sec, banner, campaign, project, language, country) ==
    [ InvalidLine EXCEPT !.valid = TRUE, !.banner_shown = TRUE,
      !.time = << min, sec >>, !.banner = banner, !.campaign = campaign,
      !.project_identifier = project, !.language_code = language,
      !.country_code = country ]

\* A valid LandingPage event; missing utm_source, contact_id and link_id
\* have been set to '' and a missing country to 'XX' by LPEvent.
LP(min, sec, project, language, country, utm_source, contact_id, link_id) ==
    [ InvalidLine EXCEPT !.valid = TRUE,
      !.time = << min, sec >>,
      !.project_identifier = project, !.language_code = language,
      !.country_code = country, !.utm_source = utm_source,
      !.contact_id = contact_id, !.link_id = link_id ]

Bot(e) == [ e EXCEPT !.bot = TRUE ]
NotShown(e) == [ e EXCEPT !.banner_shown = FALSE ]
Testing(e) == [ e EXCEPT !.testing = TRUE ]

\* A valid event whose JSON has no country, or no banner: the attribute is
\* None (Event.__init__ and CNEvent.__init__ use dict.get).
NoCountry(e) == [ e EXCEPT !.country_code = None ]
NoBanner(e) == [ e EXCEPT !.banner = None ]

-----------------------------------------------------------------------------
(* The files on disk.  A file is [ types, time, lines ]: the event types
   whose directory and glob select it, the time in its name, its lines. *)

Scenario1 ==
    [ f \in { "cn-a-100.log", "cn-b-25.log", "cn-c-200.log", "lp-a.log", "lp-b.log" } |->
        CASE f = "cn-a-100.log" ->
               [ types |-> { CENTRAL_NOTICE }, time |-> 1, lines |->
                 << CN(1, 10, "B1", "C1", "enwiki", "en", "US"),
                    Bot(CN(1, 20, "B1", "C1", "enwiki", "en", "US")),
                    CN(1, 40, "B1", "C1", "enwiki", "en", "US") >> ]
          [] f = "cn-b-25.log" ->
               [ types |-> { CENTRAL_NOTICE }, time |-> 2, lines |->
                 << CN(1, 50, "B1", "C1", "enwiki", "en", "US"),
                    InvalidLine,
                    CN(2, 5, "B1", "C1", "wikidata", "fr", "US") >> ]
          [] f = "cn-c-200.log" ->
               [ types |-> { CENTRAL_NOTICE }, time |-> 3, lines |->
                 << CN(2, 30, "B1", "C1", "enwiki", "en", "US") >> ]
          [] f = "lp-a.log" ->
               [ types |-> { LANDING_PAGE }, time |-> 1, lines |->
                 << LP(1, 10, "donatewiki", "en", "US", "s1", "c1", "l1"),
                    LP(1, 20, "donatewiki", "en", "US", "s1", "c1", "l2"),
                    LP(1, 30, "donatewiki", "en", "US", "s2", "c2", "l3") >> ]
          [] f = "lp-b.log" ->
               [ types |-> { LANDING_PAGE }, time |-> 2, lines |->
                 << InvalidLine,
                    LP(2, 5, "enwiki", "en", "US", "s3", "c3", "l5"),
                    LP(2, 10, "donatewiki", "en", "XX", "s1", "c1", "l4") >> ] ]

\* A file that the directory and glob of both event types select (its name
\* has no sample rate), beside a CentralNotice file whose second event has
\* another banner and campaign than the first and the third, the two pairs
\* having one concatenation.  The third event of the shared file has the
\* source and contact of the first, and is written by a later batch.
Scenario2 ==
    [ f \in { "cn-a-100.log", "shared.log" } |->
        CASE f = "cn-a-100.log" ->
               [ types |-> { CENTRAL_NOTICE }, time |-> 2, lines |->
                 << CN(1, 40, "B1", "C1", "enwiki", "en", "US"),
                    CN(1, 10, "B", "1C1", "enwiki", "en", "US"),
                    CN(1, 10, "B1", "C1", "enwiki", "en", "US"),
                    CN(2, 5, "B1", "C1", "wikidata", "fr", "US"),
                    CN(2, 6, "B1", "C1", "frwiki", "de", "CA") >> ]
          [] f = "shared.log" ->
               [ types |-> { CENTRAL_NOTICE, LANDING_PAGE }, time |-> 1, lines |->
                 << LP(1, 10, "donatewiki", "en", "US", "s1", "c1", "l1"),
                    LP(1, 20, "donatewiki", "en", "US", "s2", "c2", "l2"),
                    LP(1, 30, "donatewiki", "en", "US", "s1", "c1", "l3") >> ] ]

\* Three CentralNotice files: the first has a banner preview that was shown
\* (testingBanner true, statusCode '6') and an ordinary event; the second
\* has a valid event without banner, the third a valid event without
\* country.
Scenario3 ==
    [ f \in { "cn-t-100.log", "cn-u-100.log", "cn-v-100.log" } |->
        CASE f = "cn-t-100.log" ->
               [ types |-> { CENTRAL_NOTICE }, time |-> 1, lines |->
                 << Testing(CN(1, 10, "B1", "C1", "enwiki", "en", "US")),
                    CN(1, 20, "B2", "C1", "enwiki", "en", "US") >> ]
          [] f = "cn-u-100.log" ->
               [ types |-> { CENTRAL_NOTICE }, time |-> 2, lines |->
                 << NoBanner(CN(1, 10, "B1", "C1", "enwiki", "en", "US")) >> ]
          [] f = "cn-v-100.log" ->
               [ types |-> { CENTRAL_NOTICE }, time |-> 3, lines |->
                 << NoCountry(CN(1, 30, "B1", "C1", "enwiki", "en", "US")) >> ] ]

Scenarios == { Scenario1, Scenario2, Scenario3 }

\* re.search( extract_sample_rate_regex, filename ): the digits matched, as
\* int() reads them, or NULL when the regex finds nothing.
ExtractSampleRate(filename) ==
    CASE filename = "cn-a-100.log" -> 100
      [] filename = "cn-b-25.log" -> 25
      [] filename = "cn-c-200.log" -> 200
      [] filename = "cn-t-100.log" -> 100
      [] filename = "cn-u-100.log" -> 100
      [] filename = "cn-v-100.log" -> 100
      [] OTHER -> NULL

-----------------------------------------------------------------------------
(* The store.  files, bannerimpressions (cells), files_and_bannerimpressions
   (links), landingpageimpression_raw (raw), donatewiki_unique (uniq), and
   the three dimension tables.  next_file and next_cell are the
   AUTO_INCREMENT counters of files and bannerimpressions. *)

EmptyStore ==
    [ files |-> {}, cells |-> {}, links |-> << >>, raw |-> << >>, uniq |-> {},
      project |-> {}, language |-> {}, country |-> {},
      next_file |-> 1, next_cell |-> 1 ]

RECURSIVE SumCounts(_)
SumCounts(rows) ==
    IF rows = << >> THEN 0 ELSE Head(rows).count + SumCounts(Tail(rows))

ProcessingIds(st) == { f.id : f \in { g \in st.files : g.status = PROCESSING } }

\* _INSERT_FILE_SQL, with cursor.lastrowid the id given to the row.
InsertFile(st, filename, type, time, status, sample_rate, consumed_events, ignored_events, invalid_events) ==
    [ st EXCEPT
        !.files = @ \cup { [ id |-> st.next_file, filename |-> filename,
                             impressiontype |-> type, timestamp |-> time,
                             sample_rate |-> sample_rate, status |-> status,
                             consumed_events |-> consumed_events,
                             ignored_events |-> ignored_events,
                             invalid_events |-> invalid_events ] },
        !.next_file = @ + 1 ]

\* _UPDATE_FILE_SQL: every column of the row WHERE id = db_id.
UpdateFile(st, f) ==
    [ st EXCEPT
        !.files = { IF r.id = f.db_id
                    THEN [ id |-> r.id, filename |-> f.filename,
                           impressiontype |-> f.event_type,
                           timestamp |-> f.time,
                           sample_rate |-> f.sample_rate,
                           status |-> f.status,
                           consumed_events |-> f.consumed_events,
                           ignored_events |-> f.ignored_events,
                           invalid_events |-> f.invalid_events ]
                    ELSE r : r \in @ } ]

\* The unique key of bannerimpressions.
SameKey(row, cell) ==
    /\ row.timestamp = cell.time
    /\ row.banner = cell.banner
    /\ row.campaign = cell.campaign
    /\ row.project_id = cell.project.db_id
    /\ row.language_id = cell.language.db_id
    /\ row.country_id = cell.country.db_id


\* Mutant of InsertOrUpdateDataCell: on a duplicate key the count is
\* overwritten (update count=%(count)s).
InsertOrUpdateDataCell_overwrites(st, cell) ==
    IF \E row \in st.cells : SameKey(row, cell)
    THEN [ st EXCEPT
             !.cells = { IF SameKey(row, cell)
                         THEN [ row EXCEPT !.count = cell.event_count ]
                         ELSE row : row \in @ } ]
    ELSE [ st EXCEPT
             !.cells = @ \cup { [ id |-> st.next_cell,
                                  timestamp |-> cell.time,
                                  banner |-> cell.banner,
                                  campaign |-> cell.campaign,
                                  project_id |-> cell.project.db_id,
                                  language_id |-> cell.language.db_id,
                                  country_id |-> cell.country.db_id,
                                  count |-> cell.event_count ] },
             !.next_cell = @ + 1 ]

\* _INSERT_OR_UPDATE_DATA_CELL_SQL: INSERT ... ON DUPLICATE KEY update
\* count=count+%(count)s.
InsertOrUpdateDataCell(st, cell) ==
    IF \E row \in st.cells : SameKey(row, cell)
    THEN [ st EXCEPT
             !.cells = { IF SameKey(row, cell)
                         THEN [ row EXCEPT !.count = @ + cell.event_count ]
                         ELSE row : row \in @ } ]
    ELSE [ st EXCEPT
             !.cells = @ \cup { [ id |-> st.next_cell,
                                  timestamp |-> cell.time,
                                  banner |-> cell.banner,
                                  campaign |-> cell.campaign,
                                  project_id |-> cell.project.db_id,
                                  language_id |-> cell.language.db_id,
                                  country_id |-> cell.country.db_id,
                                  count |-> cell.event_count ] },
             !.next_cell = @ + 1 ]


\* Mutant of LastRowId: an update leaves cursor.lastrowid at the id the
\* last insert gave.
LastRowId_of_last_insert(st, cell) == st.next_cell - 1

\* cursor.lastrowid after the upsert of cell, st being the store after it:
\* the id of the row the statement inserted or updated (the count always
\* changes, since every cell holds at least one event).
LastRowId(st, cell) == (CHOOSE row \in st.cells : SameKey(row, cell)).id

\* _INSERT_FILE_LINK_SQL
InsertFileLink(st, file_id, banner_imp_cell_id, count) ==
    [ st EXCEPT !.links = Append(@, [ file_id |-> file_id,
                                      banner_imp_cell_id |-> banner_imp_cell_id,
                                      count |-> count ]) ]

\* The derived table "links" of the subtract statement: the link rows joined
\* to a file with processing status (of any event type).
ProcessingLinks(st) ==
    SelectSeq(st.links, LAMBDA l : l.file_id \in ProcessingIds(st))


\* Mutant of SubtractCounts: the join with files is lost, every link row is
\* subtracted from its cell, whatever the status of its file.
SubtractCounts_all_links(st) ==
    [ st EXCEPT
        !.cells =
          { LET m == SelectSeq(st.links, LAMBDA l : l.banner_imp_cell_id = row.id)
            IN  IF m = << >> THEN row
                ELSE [ row EXCEPT !.count = @ - m[1].count ] : row \in @ } ]

\* _SUBTRACT_COUNTS_FROM_CELLS_FOR_FILES_WITH_PROCESSING_STATUS_SQL.  A
\* multiple-table UPDATE updates each matching row once, even when it
\* matches several rows of the join: the first matching link is used.
SubtractCounts(st) ==
    [ st EXCEPT
        !.cells =
          { LET m == SelectSeq(ProcessingLinks(st),
                               LAMBDA l : l.banner_imp_cell_id = row.id)
            IN  IF m = << >> THEN row
                ELSE [ row EXCEPT !.count = @ - m[1].count ] : row \in @ } ]


\* Mutant of DeleteZeroCells: WHERE count < 0.
DeleteZeroCells_negative(st) ==
    [ st EXCEPT !.cells = { row \in @ : ~ ( row.count < 0 ) } ]

\* _DELETE_DATA_CELLS_WITH_ZERO_COUNTS_SQL
DeleteZeroCells(st) ==
    [ st EXCEPT !.cells = { row \in @ : row.count # 0 } ]


\* Mutant of DeleteProcessingLinks: WHERE files.status = 'consumed'.
DeleteProcessingLinks_consumed(st) ==
    [ st EXCEPT !.links = SelectSeq(@, LAMBDA l :
          l.file_id \notin { f.id : f \in { g \in st.files : g.status = CONSUMED } }) ]

\* _DELETE_FILE_LINKS_FROM_FILES_WITH_PROCESSING_STATUS_SQL
DeleteProcessingLinks(st) ==
    [ st EXCEPT !.links = SelectSeq(@, LAMBDA l : l.file_id \notin ProcessingIds(st)) ]

\* _DELETE_LP_RAW_DATA_FROM_FILES_WITH_PROCESSING_STATUS_SQL
DeleteProcessingRaw(st) ==
    [ st EXCEPT !.raw = SelectSeq(@, LAMBDA r : r.file_id \notin ProcessingIds(st)) ]

\* Mutant of DeleteProcessingUniq: the statement has no join with files and
\* deletes every row of donatewiki_unique.
DeleteProcessingUniq_every_row(st) ==
    [ st EXCEPT !.uniq = {} ]

\* _DELETE_DW_U_DATA_FROM_FILES_WITH_PROCESSING_STATUS_SQL
DeleteProcessingUniq(st) ==
    [ st EXCEPT !.uniq = { u \in @ : u.file_id \notin ProcessingIds(st) } ]


\* Mutant of DeleteProcessingFiles: the status is not tested
\* (WHERE impressiontype = %s).
DeleteProcessingFiles_any_status(st, type) ==
    [ st EXCEPT !.files = { f \in @ : f.impressiontype # type } ]


\* Mutant of DeleteProcessingFiles: the event type is not tested
\* (WHERE status = 'processing').
DeleteProcessingFiles_any_type(st, type) ==
    [ st EXCEPT !.files = { f \in @ : f.status # PROCESSING } ]

\* _DELETE_WITH_PROCESSING_STATUS_SQL
DeleteProcessingFiles(st, type) ==
    [ st EXCEPT !.files = { f \in @ : ~ ( f.status = PROCESSING
                                          /\ f.impressiontype = type ) } ]


\* Mutant of files_with_processing_status: the query is given the event
\* type's output_name ('centralnotice') and not its legacy_key ('banner').
files_with_processing_status_output_name(st, type) ==
    \E f \in st.files :
        /\ f.status = PROCESSING
        /\ f.impressiontype = IF type = CENTRAL_NOTICE THEN "centralnotice" ELSE type

\* Mutant of files_with_processing_status: the query tests the wrong status
\* (status = 'consumed').
files_with_processing_status_consumed(st, type) ==
    \E f \in st.files : f.status = CONSUMED /\ f.impressiontype = type

\* _FILES_WITH_PROCESSING_STATUS_SQL
files_with_processing_status(st, type) ==
    \E f \in st.files : f.status = PROCESSING /\ f.impressiontype = type

\* Mutant of get_lastest_time: the query does not test the event type
\* (WHERE status = 'consumed').
get_lastest_time_any_type(st, type) ==
    LET ts == { f.timestamp : f \in { g \in st.files : g.status = CONSUMED } }
    IN  IF ts = {} THEN NULL
        ELSE CHOOSE t \in ts : \A u \in ts : u <= t

\* _LATEST_TIME_SQL: NULL when no row is selected.
get_lastest_time(st, type) ==
    LET ts == { f.timestamp : f \in { g \in st.files :
                    g.status = CONSUMED /\ g.impressiontype = type } }
    IN  IF ts = {} THEN NULL
        ELSE CHOOSE t \in ts : \A u \in ts : u <= t

-----------------------------------------------------------------------------
(* db.object_cache: a set of [ key, db_id ], one entry per key.  The cached
   objects are a LogFile, Project, Language or Country; the model keeps the
   db_id, which with the key identifies the object. *)

get_obj(ch, key) ==
    IF \E o \in ch : o.key = key
    THEN (CHOOSE o \in ch : o.key = key).db_id
    ELSE NULL

set_obj(ch, key, db_id) ==
    { o \in ch : o.key # key } \cup { [ key |-> key, db_id |-> db_id ] }

is_cached(ch, key) == \E o \in ch : o.key = key

_make_cache_key(filename) == "LogFile" \o filename

\* Mutant of known: the query to the files table is left out, the cache
\* alone answers.
known_cache_only(st, ch, filename) ==
    is_cached(ch, _make_cache_key(filename))

\* Mutant of known: the query looks for a row with consumed status only
\* (WHERE filename = %s AND status = 'consumed').
known_consumed_only(st, ch, filename) ==
    \/ is_cached(ch, _make_cache_key(filename))
    \/ \E f \in st.files : f.filename = filename /\ f.status = CONSUMED

\* log_file_mapper.known
known(st, ch, filename) ==
    \/ is_cached(ch, _make_cache_key(filename))
    \/ \E f \in st.files : f.filename = filename

\* Mutant of get_or_new: on a cache miss the row is inserted without the
\* SELECT that looks for it.
get_or_new_no_select(tbl, prefix, code, st, ch) ==
    IF get_obj(ch, prefix \o code) # NULL
    THEN [ st |-> st, cache |-> ch, db_id |-> get_obj(ch, prefix \o code) ]
    ELSE [ st |-> [ st EXCEPT ![tbl] = @ \cup { [ code |-> code,
                                                 id |-> Cardinality(st[tbl]) + 1 ] } ],
           cache |-> set_obj(ch, prefix \o code, Cardinality(st[tbl]) + 1),
           db_id |-> Cardinality(st[tbl]) + 1 ]

\* lookup_on_unique_column_helper.get_or_new on the dimension table tbl
\* ("project", "language" or "country"), the mapper's cache key prefix and a
\* code that passes the object's validation.  Gives the store (committed
\* when a row was inserted), the cache and the db_id of the object.
get_or_new(tbl, prefix, code, st, ch) ==
    IF get_obj(ch, prefix \o code) # NULL
    THEN [ st |-> st, cache |-> ch, db_id |-> get_obj(ch, prefix \o code) ]
    ELSE LET rows == { r \in st[tbl] : r.code = code }
             id == IF rows # {} THEN (CHOOSE r \in rows : TRUE).id
                   ELSE Cardinality(st[tbl]) + 1
         IN  [ st |-> [ st EXCEPT ![tbl] = @ \cup { [ code |-> code, id |-> id ] } ],
               cache |-> set_obj(ch, prefix \o code, id),
               db_id |-> id ]

-----------------------------------------------------------------------------
(* log_file_manager *)

RECURSIVE SortByTime(_)
SortByTime(names) ==
    IF names = {} THEN << >>
    ELSE LET first == CHOOSE f \in names :
                        \A g \in names : disk[f].time <= disk[g].time
         IN  << first >> \o SortByTime(names \ { first })

\* file_infos: the files of the directory within [ from_time, to_time ], in
\* chronological order (NULL: no limit).
file_infos(type, from_time, to_time) ==
    SortByTime({ f \in DOMAIN disk :
                   /\ type \in disk[f].types
                   /\ ~ ( from_time # NULL /\ disk[f].time < from_time )
                   /\ ~ ( to_time # NULL /\ disk[f].time > to_time ) })


\* Mutant of SampleRateRaises: the upper limit is mistyped ( sr > 1000 ).
SampleRateRaises_limit(filename) ==
    \/ ExtractSampleRate(filename) = NULL
    \/ ExtractSampleRate(filename) <= 0
    \/ ExtractSampleRate(filename) > 1000

\* sample_rate raises RuntimeError when the regex finds nothing and
\* ValueError when the number is not in 1..100.
SampleRateRaises(filename) ==
    \/ ExtractSampleRate(filename) = NULL
    \/ ExtractSampleRate(filename) <= 0
    \/ ExtractSampleRate(filename) > 100

sample_rate(filename) == ExtractSampleRate(filename)

-----------------------------------------------------------------------------
(* CNAggregationStep *)


\* 100 / file.sample_rate.  The sample rates of the files on disk divide
\* 100, so the float quotient and every sum of quotients is a whole number.
_sample_rate_multiplier(f) == 100 \div f.sample_rate

\* time.strftime( '%Y%m%d%H%M%S' ) of << minute, second >>
strftime(time) ==
    LET two(n) == << "00", "01", "02", "03", "04", "05" >>[(n \div 10) + 1]
                  \o << "0", "1", "2", "3", "4", "5", "6", "7", "8", "9" >>[(n % 10) + 1]
    IN  "2023010100" \o two(time[1]) \o two(time[2])

_data_cell_id(time, banner, campaign, project, language, country) ==
    strftime(time) \o banner \o campaign \o project.code \o language.code
        \o country.code

\* add_event raises TypeError when it concatenates None: the cache key of
\* the country, or the banner or campaign in _data_cell_id.
CountryRaises(event) == event.country_code = None
CellIdRaises(event) == event.banner = None \/ event.campaign = None


\* add_event.  r1, r2, r3 are the lookups of project, language and country;
\* the result is [ raised, st, cache, other, data ].  When add_event raises,
\* the dimension rows inserted before the raise stay committed.
add_event(event, mult, st, ch, oth, cells) ==
    LET detail_p == DetailProjectMatch(event.project_identifier)
        r1 == IF detail_p
              THEN get_or_new("project", "Project", event.project_identifier, st, ch)
              ELSE IF oth.project # NULL
              THEN [ st |-> st, cache |-> ch, db_id |-> oth.project ]
              ELSE get_or_new("project", "Project", _OTHER_PROJECT_IDENTIFIER, st, ch)
        project == [ code |-> IF detail_p THEN event.project_identifier
                              ELSE _OTHER_PROJECT_IDENTIFIER,
                     db_id |-> r1.db_id ]
        oth1 == IF detail_p THEN oth ELSE [ oth EXCEPT !.project = r1.db_id ]
        detail_l == event.language_code \in detail_languages
        r2 == IF detail_l
              THEN get_or_new("language", "Language", event.language_code, r1.st, r1.cache)
              ELSE IF oth1.language # NULL
              THEN [ st |-> r1.st, cache |-> r1.cache, db_id |-> oth1.language ]
              ELSE get_or_new("language", "Language", _OTHER_LANGUAGE_CODE, r1.st, r1.cache)
        language == [ code |-> IF detail_l THEN event.language_code
                               ELSE _OTHER_LANGUAGE_CODE,
                      db_id |-> r2.db_id ]
        oth2 == IF detail_l THEN oth1 ELSE [ oth1 EXCEPT !.language = r2.db_id ]
        time == << event.time[1], 0 >>
    IN  IF CountryRaises(event)
        THEN [ raised |-> TRUE, st |-> r2.st, cache |-> r2.cache, other |-> oth2,
               data |-> cells ]
        ELSE
        LET r3 == get_or_new("country", "Country", event.country_code, r2.st, r2.cache)
            country == [ code |-> event.country_code, db_id |-> r3.db_id ]
        IN  IF CellIdRaises(event)
            THEN [ raised |-> TRUE, st |-> r3.st, cache |-> r3.cache,
                   other |-> oth2, data |-> cells ]
            ELSE
            LET cell_id == _data_cell_id(time, event.banner, event.campaign,
                                         project, language, country)
                found == \E i \in 1..Len(cells) : cells[i].cell_id = cell_id
                with == IF found THEN cells
                        ELSE Append(cells,
                               [ cell_id |-> cell_id, time |-> time,
                                 banner |-> event.banner,
                                 campaign |-> event.campaign,
                                 project |-> project, language |-> language,
                                 country |-> country, event_count |-> 0 ])
            IN  [ raised |-> FALSE, st |-> r3.st, cache |-> r3.cache,
                  other |-> oth2,
                  data |-> [ i \in 1..Len(with) |->
                               IF with[i].cell_id = cell_id
                               THEN [ with[i] EXCEPT !.event_count = @ + mult ]
                               ELSE with[i] ] ]

-----------------------------------------------------------------------------
(* LPWriteStep *)

\* _LPEventInsertFields: the three lookups, then the two dictionaries.  The
\* result is [ st, cache, fields ].
_LPEventInsertFields(event, f, st, ch) ==
    LET r1 == get_or_new("project", "Project", event.project_identifier, st, ch)
        r2 == get_or_new("language", "Language", event.language_code, r1.st, r1.cache)
        r3 == get_or_new("country", "Country", event.country_code, r2.st, r2.cache)
    IN  [ st |-> r3.st, cache |-> r3.cache,
          fields |->
            [ lp_raw_fields |->
                [ timestamp |-> event.time, utm_source |-> event.utm_source,
                  project_id |-> r1.db_id, language_id |-> r2.db_id,
                  country_id |-> r3.db_id, file_id |-> f.db_id ],
              donatewiki_unique_fields |->
                [ timestamp |-> event.time, utm_source |-> event.utm_source,
                  contact_id |-> event.contact_id, link_id |-> event.link_id,
                  file_id |-> f.db_id ] ] ]

\* cursor.executemany( _INSERT_LP_RAW_SQL, ... ): every row is inserted.
InsertLpRaw(st, batch) ==
    [ st EXCEPT !.raw = @ \o [ i \in 1..Len(batch) |-> batch[i].lp_raw_fields ] ]

\* Mutant of InsertDonatewikiUniques: the statement is a REPLACE INTO, a row
\* whose ( utm_source, contact_id ) is already there taking its place.
InsertDonatewikiUniques_replace(st, batch) ==
    LET SameKeyOf(u, v) == /\ u.utm_source = v.utm_source
                            /\ u.contact_id = v.contact_id
        rows == { batch[i].donatewiki_unique_fields : i \in 1..Len(batch) }
        last == { batch[i].donatewiki_unique_fields : i \in
                    { k \in 1..Len(batch) : \A j \in (k + 1)..Len(batch) :
                        ~ SameKeyOf(batch[k].donatewiki_unique_fields,
                                     batch[j].donatewiki_unique_fields) } }
    IN  [ st EXCEPT !.uniq = { v \in @ : \A u \in rows : ~ SameKeyOf(u, v) }
                             \cup last ]

\* cursor.executemany( _INSERT_DONATEWIKI_UNIQUES_SQL, ... ): the rows in
\* order, a row whose ( utm_source, contact_id ) is already there changing
\* nothing (ON DUPLICATE KEY UPDATE link_id=link_id).
RECURSIVE InsertDonatewikiUniques(_, _)
InsertDonatewikiUniques(st, batch) ==
    IF batch = << >> THEN st
    ELSE LET u == Head(batch).donatewiki_unique_fields
             dup == \E v \in st.uniq : /\ v.utm_source = u.utm_source
                                       /\ v.contact_id = u.contact_id
         IN  InsertDonatewikiUniques(
               IF dup THEN st ELSE [ st EXCEPT !.uniq = @ \cup { u } ],
               Tail(batch))

-----------------------------------------------------------------------------
(* The process *)

NoFile ==
    [ filename |-> None, time |-> NULL, event_type |-> None,
      sample_rate |-> NULL, status |-> None, consumed_events |-> NULL,
      ignored_events |-> NULL, invalid_events |-> NULL, db_id |-> NULL ]

NoOther == [ project |-> NULL, language |-> NULL ]

Times == { disk[f].time : f \in DOMAIN disk }

Init ==
    /\ disk \in Scenarios
    /\ db = EmptyStore
    /\ tx = EmptyStore
    /\ pc = "idle"
    /\ event_type = None
    /\ todo = << >>
    /\ file = NoFile
    /\ line_no = 0
    /\ data = << >>
    /\ save_pos = 0
    /\ fields = << >>
    /\ cache = {}
    /\ other = NoOther
    /\ err = "none"

\* An exception leaves the call: what the connection had not committed is
\* lost with it (every later db.connect of the process raises, the
\* connection never having been closed), and the process can only end.
Raise(what) ==
    /\ pc' = "failed"
    /\ err' = what

\* controller.consume_events, lines 67-106: up to the loop over file_infos.
consume_events ==
    /\ pc = "idle"
    /\ \E type \in EventTypes, from_latest \in BOOLEAN,
          from_time \in Times \cup { NULL }, to_time \in Times \cup { NULL } :
        /\ ~ ( from_latest /\ from_time # NULL )
        /\ event_type' = type
        /\ IF files_with_processing_status(tx, type)
           THEN /\ Raise("files_with_processing_status")
                /\ todo' = << >>
           ELSE /\ pc' = "loop"
                /\ err' = "none"
                /\ todo' = file_infos(type,
                              IF from_latest THEN get_lastest_time(tx, type)
                              ELSE from_time,
                              to_time)
    /\ file' = NoFile
    /\ UNCHANGED << db, tx, line_no, data, save_pos, fields, cache, other, disk >>

\* consume_events, lines 109-117: a file known to the db is skipped.
SkipFile ==
    /\ pc = "loop"
    /\ todo # << >>
    /\ known(tx, cache, Head(todo))
    /\ todo' = Tail(todo)
    /\ UNCHANGED << db, tx, pc, event_type, file, line_no, data, save_pos,
                    fields, cache, other, err, disk >>

\* The LogFile object log_file_mapper.new returns.
NewLogFile(filename, type) ==
    [ filename |-> filename, time |-> disk[filename].time,
      event_type |-> type, sample_rate |-> NULL, status |-> PROCESSING,
      consumed_events |-> NULL, ignored_events |-> NULL,
      invalid_events |-> NULL, db_id |-> tx.next_file ]

\* consume_events, lines 121-128, log_file_mapper.new: the row is inserted
\* with processing status and committed, the object cached.  For a
\* LandingPage file _process_lp_file (lines 237-241) then zeroes the counters
\* of the object and creates the write step.
BeginFile ==
    /\ pc = "loop"
    /\ todo # << >>
    /\ ~ known(tx, cache, Head(todo))
    /\ tx.next_file <= MaxFileId
    /\ LET filename == Head(todo)
           st == InsertFile(tx, filename, event_type, disk[filename].time,
                            PROCESSING, NULL, NULL, NULL, NULL)
       IN  /\ tx' = st
           /\ db' = st
           /\ file' = IF event_type = CENTRAL_NOTICE
                      THEN NewLogFile(filename, event_type)
                      ELSE [ NewLogFile(filename, event_type) EXCEPT
                               !.consumed_events = 0, !.ignored_events = 0,
                               !.invalid_events = 0 ]
           /\ cache' = set_obj(cache, _make_cache_key(filename), tx.next_file)
    /\ todo' = Tail(todo)
    /\ pc' = IF event_type = CENTRAL_NOTICE THEN "sample_rate" ELSE "lines"
    /\ line_no' = 1
    /\ data' = << >>
    /\ fields' = << >>
    /\ UNCHANGED << event_type, save_pos, other, err, disk >>

\* log_file_mapper.new, lines 139-142: the insert fails.
BeginFileError ==
    /\ pc = "loop"
    /\ todo # << >>
    /\ ~ known(tx, cache, Head(todo))
    /\ tx' = db
    /\ Raise("new")
    /\ UNCHANGED << db, event_type, todo, file, line_no, data, save_pos,
                    fields, cache, other, disk >>

\* Mutant of SampleRate: a file whose name has no valid sample rate is left
\* and the loop goes on with the next file.
SampleRate_next_file ==
    /\ pc = "sample_rate"
    /\ IF SampleRateRaises(file.filename)
       THEN /\ pc' = "loop"
            /\ UNCHANGED << file, data, err >>
       ELSE /\ file' = [ file EXCEPT !.sample_rate = sample_rate(file.filename),
                                     !.consumed_events = 0,
                                     !.ignored_events = 0,
                                     !.invalid_events = 0 ]
            /\ data' = << >>
            /\ pc' = "lines"
            /\ err' = "none"
    /\ UNCHANGED << db, tx, event_type, todo, line_no, save_pos, fields, cache,
                    other, disk >>

\* consume_events, lines 133-136, and _process_cn_file, lines 198-207: the
\* sample rate is read from the name of the file whose row new() committed.
SampleRate ==
    /\ pc = "sample_rate"
    /\ IF SampleRateRaises(file.filename)
       THEN /\ Raise("sample_rate")
            /\ UNCHANGED << file, data >>
       ELSE /\ file' = [ file EXCEPT !.sample_rate = sample_rate(file.filename),
                                     !.consumed_events = 0,
                                     !.ignored_events = 0,
                                     !.invalid_events = 0 ]
            /\ data' = << >>
            /\ pc' = "lines"
            /\ err' = "none"
    /\ UNCHANGED << db, tx, event_type, todo, line_no, save_pos, fields,
                    cache, other, disk >>

Lines(f) == disk[f.filename].lines

\* Mutant of CNLine: the events of declared bots are not ignored.
CNLine_bots_not_ignored ==
    /\ pc = "lines"
    /\ event_type = CENTRAL_NOTICE
    /\ line_no <= Len(Lines(file))
    /\ LET event == Lines(file)[line_no]
           r == add_event(event, _sample_rate_multiplier(file), tx, cache,
                          other, data)
       IN  IF ~ event.valid
           THEN /\ file' = [ file EXCEPT !.invalid_events = @ + 1 ]
                /\ UNCHANGED << db, tx, cache, other, data, pc, err >>
           ELSE IF ~ event.banner_shown
           THEN /\ file' = [ file EXCEPT !.ignored_events = @ + 1 ]
                /\ UNCHANGED << db, tx, cache, other, data, pc, err >>
           ELSE /\ tx' = r.st
                /\ db' = r.st
                /\ cache' = r.cache
                /\ other' = r.other
                /\ data' = r.data
                /\ IF r.raised
                   THEN /\ Raise("add_event")
                        /\ UNCHANGED file
                   ELSE /\ file' = [ file EXCEPT !.consumed_events = @ + 1 ]
                        /\ UNCHANGED << pc, err >>
    /\ line_no' = line_no + 1
    /\ UNCHANGED << event_type, todo, save_pos, fields, disk >>

\* _process_cn_file, lines 210-228: one line of the file.
CNLine ==
    /\ pc = "lines"
    /\ event_type = CENTRAL_NOTICE
    /\ line_no <= Len(Lines(file))
    /\ LET event == Lines(file)[line_no]
           r == add_event(event, _sample_rate_multiplier(file), tx, cache,
                          other, data)
       IN  IF ~ event.valid
           THEN /\ file' = [ file EXCEPT !.invalid_events = @ + 1 ]
                /\ UNCHANGED << db, tx, cache, other, data, pc, err >>
           ELSE IF event.bot \/ ~ event.banner_shown
           THEN /\ file' = [ file EXCEPT !.ignored_events = @ + 1 ]
                /\ UNCHANGED << db, tx, cache, other, data, pc, err >>
           ELSE /\ tx' = r.st
                /\ db' = r.st
                /\ cache' = r.cache
                /\ other' = r.other
                /\ data' = r.data
                /\ IF r.raised
                   THEN /\ Raise("add_event")
                        /\ UNCHANGED file
                   ELSE /\ file' = [ file EXCEPT !.consumed_events = @ + 1 ]
                        /\ UNCHANGED << pc, err >>
    /\ line_no' = line_no + 1
    /\ UNCHANGED << event_type, todo, save_pos, fields, disk >>

\* _process_cn_file, line 231, and save, lines 242-244: the file is read.
CNEndOfFile ==
    /\ pc = "lines"
    /\ event_type = CENTRAL_NOTICE
    /\ line_no > Len(Lines(file))
    /\ pc' = "save"
    /\ save_pos' = 1
    /\ UNCHANGED << db, tx, event_type, todo, file, line_no, data, fields,
                    cache, other, err, disk >>

\* CNAggregationStep.save, lines 246-271: the cell at save_pos is upserted
\* and its link row inserted, in the open transaction.
SaveCell ==
    /\ pc = "save"
    /\ save_pos <= Len(data)
    /\ LET cell == data[save_pos]
           st == InsertOrUpdateDataCell(tx, cell)
       IN  tx' = InsertFileLink(st, file.db_id, LastRowId(st, cell),
                                cell.event_count)
    /\ save_pos' = save_pos + 1
    /\ UNCHANGED << db, pc, event_type, todo, file, line_no, data, fields,
                    cache, other, err, disk >>


\* Mutant of SaveError: the except clause commits what the loop has written
\* so far and raises.
SaveError_commits ==
    /\ pc = "save"
    /\ save_pos <= Len(data)
    /\ db' = tx
    /\ pc' = "failed"
    /\ err' = "save"
    /\ UNCHANGED << tx, event_type, todo, file, line_no, data, save_pos,
                    fields, cache, other, disk >>

\* Mutant of SaveError: the except clause rolls back and leaves the loop
\* without raising, so that the caller goes on.
SaveError_swallowed ==
    /\ pc = "save"
    /\ save_pos <= Len(data)
    /\ tx' = db
    /\ pc' = "mark"
    /\ data' = << >>
    /\ save_pos' = 0
    /\ UNCHANGED << db, event_type, todo, file, line_no, fields, cache, other,
                    err, disk >>

\* save, lines 273-276: one of the two statements of the cell at save_pos
\* fails; the transaction is rolled back and the error raised.
SaveError ==
    /\ pc = "save"
    /\ save_pos <= Len(data)
    /\ tx' = db
    /\ Raise("save")
    /\ UNCHANGED << db, event_type, todo, file, line_no, data, save_pos,
                    fields, cache, other, disk >>

\* save, lines 278-282
SaveCommit ==
    /\ pc = "save"
    /\ save_pos > Len(data)
    /\ db' = tx
    /\ data' = << >>
    /\ save_pos' = 0
    /\ pc' = "mark"
    /\ UNCHANGED << tx, event_type, todo, file, line_no, fields, cache, other,
                    err, disk >>

\* Mutant of MarkConsumed: the status of the object is not set before the
\* row is updated.
MarkConsumed_status_not_set ==
    /\ pc = "mark"
    /\ LET f == file
       IN  IF get_obj(cache, _make_cache_key(f.filename)) # f.db_id
           THEN /\ Raise("log_file_mapper.save")
                /\ file' = f
                /\ UNCHANGED << db, tx, line_no >>
           ELSE /\ tx' = UpdateFile(tx, f)
                /\ db' = UpdateFile(tx, f)
                /\ pc' = "loop"
                /\ file' = NoFile
                /\ line_no' = 0
                /\ UNCHANGED err
    /\ UNCHANGED << event_type, todo, data, save_pos, fields, cache, other,
                    disk >>

\* consume_events, lines 147-154, and log_file_mapper.save: the object is
\* in the cache, its row is updated with consumed status and the counters,
\* and the iteration of the loop ends.
MarkConsumed ==
    /\ pc = "mark"
    /\ LET f == [ file EXCEPT !.status = CONSUMED ]
       IN  IF get_obj(cache, _make_cache_key(f.filename)) # f.db_id
           THEN /\ Raise("log_file_mapper.save")
                /\ file' = f
                /\ UNCHANGED << db, tx, line_no >>
           ELSE /\ tx' = UpdateFile(tx, f)
                /\ db' = UpdateFile(tx, f)
                /\ pc' = "loop"
                /\ file' = NoFile
                /\ line_no' = 0
                /\ UNCHANGED err
    /\ UNCHANGED << event_type, todo, data, save_pos, fields, cache, other,
                    disk >>

\* log_file_mapper.save, lines 185-188: the update fails.
MarkConsumedError ==
    /\ pc = "mark"
    /\ file' = [ file EXCEPT !.status = CONSUMED ]
    /\ tx' = db
    /\ Raise("log_file_mapper.save")
    /\ UNCHANGED << db, event_type, todo, line_no, data, save_pos, fields,
                    cache, other, disk >>

\* consume_events, lines 156-157: db.close() and return.
Return ==
    /\ pc = "loop"
    /\ todo = << >>
    /\ pc' = "idle"
    /\ event_type' = None
    /\ UNCHANGED << db, tx, todo, file, line_no, data, save_pos, fields, cache,
                    other, err, disk >>

\* Mutant of LPLine: the step writes when the buffer has reached
\* lp_max_batch events (len >= lp_max_batch).
LPLine_flush_at_max_batch ==
    /\ pc = "lines"
    /\ event_type = LANDING_PAGE
    /\ line_no <= Len(Lines(file))
    /\ LET event == Lines(file)[line_no]
           r == _LPEventInsertFields(event, file, tx, cache)
       IN  IF ~ event.valid
           THEN /\ file' = [ file EXCEPT !.invalid_events = @ + 1 ]
                /\ UNCHANGED << db, tx, cache, fields, pc >>
           ELSE IF \/ event.bot
                   \/ event.project_identifier \notin _CONSUMIBLE_LP_PROJECT_IDENTIFIERS
           THEN /\ file' = [ file EXCEPT !.ignored_events = @ + 1 ]
                /\ UNCHANGED << db, tx, cache, fields, pc >>
           ELSE /\ tx' = r.st
                /\ db' = r.st
                /\ cache' = r.cache
                /\ fields' = Append(fields, r.fields)
                /\ IF Len(fields) + 1 >= lp_max_batch
                   THEN /\ pc' = "write"
                        /\ UNCHANGED file
                   ELSE /\ file' = [ file EXCEPT !.consumed_events = @ + 1 ]
                        /\ UNCHANGED pc
    /\ line_no' = line_no + 1
    /\ UNCHANGED << event_type, todo, data, save_pos, other, err, disk >>

\* _process_lp_file, lines 244-266, and add_event_and_maybe_write up to its
\* test of the batch size: one line of the file.
LPLine ==
    /\ pc = "lines"
    /\ event_type = LANDING_PAGE
    /\ line_no <= Len(Lines(file))
    /\ LET event == Lines(file)[line_no]
           r == _LPEventInsertFields(event, file, tx, cache)
       IN  IF ~ event.valid
           THEN /\ file' = [ file EXCEPT !.invalid_events = @ + 1 ]
                /\ UNCHANGED << db, tx, cache, fields, pc >>
           ELSE IF \/ event.bot
                   \/ event.project_identifier \notin _CONSUMIBLE_LP_PROJECT_IDENTIFIERS
           THEN /\ file' = [ file EXCEPT !.ignored_events = @ + 1 ]
                /\ UNCHANGED << db, tx, cache, fields, pc >>
           ELSE /\ tx' = r.st
                /\ db' = r.st
                /\ cache' = r.cache
                /\ fields' = Append(fields, r.fields)
                /\ IF Len(fields) + 1 > lp_max_batch
                   THEN /\ pc' = "write"
                        /\ UNCHANGED file
                   ELSE /\ file' = [ file EXCEPT !.consumed_events = @ + 1 ]
                        /\ UNCHANGED pc
    /\ line_no' = line_no + 1
    /\ UNCHANGED << event_type, todo, data, save_pos, other, err, disk >>

\* write_events_not_yet_written, lines 175-182: the two executemany.
WriteStatements(st, batch) == InsertDonatewikiUniques(InsertLpRaw(st, batch), batch)

\* add_event_and_maybe_write, line 166: the batch is written and committed,
\* and _process_lp_file (line 266) counts the event that filled it.
WriteBatch ==
    /\ pc = "write"
    /\ tx' = WriteStatements(tx, fields)
    /\ db' = WriteStatements(tx, fields)
    /\ fields' = << >>
    /\ file' = [ file EXCEPT !.consumed_events = @ + 1 ]
    /\ pc' = "lines"
    /\ UNCHANGED << event_type, todo, line_no, data, save_pos, cache, other,
                    err, disk >>

\* _process_lp_file, line 269: the file is read.
LPEndOfFile ==
    /\ pc = "lines"
    /\ event_type = LANDING_PAGE
    /\ line_no > Len(Lines(file))
    /\ pc' = "write_rest"
    /\ UNCHANGED << db, tx, event_type, todo, file, line_no, data, save_pos,
                    fields, cache, other, err, disk >>

\* _process_lp_file, line 269: the events not yet written are written and
\* committed.
WriteRest ==
    /\ pc = "write_rest"
    /\ tx' = WriteStatements(tx, fields)
    /\ db' = WriteStatements(tx, fields)
    /\ fields' = << >>
    /\ pc' = "mark"
    /\ UNCHANGED << event_type, todo, file, line_no, data, save_pos, cache,
                    other, err, disk >>

\* Mutant of WriteError: the insert of the dedup rows fails with the raw
\* rows of the batch committed (the connection is in autocommit mode).
WriteError_raw_committed ==
    /\ pc \in { "write", "write_rest" }
    /\ fields # << >>
    /\ tx' = InsertLpRaw(tx, fields)
    /\ db' = InsertLpRaw(tx, fields)
    /\ Raise("write_events_not_yet_written")
    /\ UNCHANGED << event_type, todo, file, line_no, data, save_pos,
                    fields, cache, other, disk >>

\* write_events_not_yet_written, lines 184-187: an insert fails; the
\* transaction is rolled back and the error raised.
WriteError ==
    /\ pc \in { "write", "write_rest" }
    /\ fields # << >>
    /\ tx' = db
    /\ Raise("write_events_not_yet_written")
    /\ UNCHANGED << db, event_type, todo, file, line_no, data, save_pos,
                    fields, cache, other, disk >>

\* controller.purge_incomplete, lines 168-176
purge_incomplete ==
    /\ pc = "idle"
    /\ \E type \in EventTypes :
         /\ event_type' = type
         /\ pc' = IF type = CENTRAL_NOTICE THEN "purge_subtract" ELSE "purge_raw"
    /\ err' = "none"
    /\ UNCHANGED << db, tx, todo, file, line_no, data, save_pos, fields, cache,
                    other, disk >>

\* cn_event_aggregator.delete_with_processing_status, line 142
PurgeSubtractCounts ==
    /\ pc = "purge_subtract"
    /\ tx' = SubtractCounts(tx)
    /\ pc' = "purge_zero"
    /\ UNCHANGED << db, event_type, todo, file, line_no, data, save_pos,
                    fields, cache, other, err, disk >>


\* Mutant of PurgeDeleteZeroCells: the connection is in autocommit mode.
PurgeDeleteZeroCells_autocommit ==
    /\ pc = "purge_zero"
    /\ tx' = DeleteZeroCells(tx)
    /\ db' = DeleteZeroCells(tx)
    /\ pc' = "purge_links"
    /\ UNCHANGED << event_type, todo, file, line_no, data, save_pos, fields,
                    cache, other, err, disk >>

\* cn_event_aggregator.delete_with_processing_status, line 143
PurgeDeleteZeroCells ==
    /\ pc = "purge_zero"
    /\ tx' = DeleteZeroCells(tx)
    /\ pc' = "purge_links"
    /\ UNCHANGED << db, event_type, todo, file, line_no, data, save_pos,
                    fields, cache, other, err, disk >>

\* Mutant of PurgeDeleteLinks: the statement that deletes the links is
\* missing.
PurgeDeleteLinks_missing ==
    /\ pc = "purge_links"
    /\ pc' = "purge_commit"
    /\ UNCHANGED << db, tx, event_type, todo, file, line_no, data, save_pos,
                    fields, cache, other, err, disk >>

\* cn_event_aggregator.delete_with_processing_status, lines 144-145
PurgeDeleteLinks ==
    /\ pc = "purge_links"
    /\ tx' = DeleteProcessingLinks(tx)
    /\ pc' = "purge_commit"
    /\ UNCHANGED << db, event_type, todo, file, line_no, data, save_pos,
                    fields, cache, other, err, disk >>

\* lp_event_writer.delete_with_processing_status, lines 122-123
PurgeDeleteRaw ==
    /\ pc = "purge_raw"
    /\ tx' = DeleteProcessingRaw(tx)
    /\ pc' = "purge_uniq"
    /\ UNCHANGED << db, event_type, todo, file, line_no, data, save_pos,
                    fields, cache, other, err, disk >>

\* lp_event_writer.delete_with_processing_status, lines 125-126
PurgeDeleteUniq ==
    /\ pc = "purge_uniq"
    /\ tx' = DeleteProcessingUniq(tx)
    /\ pc' = "purge_commit"
    /\ UNCHANGED << db, event_type, todo, file, line_no, data, save_pos,
                    fields, cache, other, err, disk >>

\* delete_with_processing_status of cn_event_aggregator (lines 152-155) or
\* lp_event_writer (lines 133-136): the data purge is committed.
PurgeDataCommit ==
    /\ pc = "purge_commit"
    /\ db' = tx
    /\ pc' = "purge_files"
    /\ UNCHANGED << tx, event_type, todo, file, line_no, data, save_pos,
                    fields, cache, other, err, disk >>

\* delete_with_processing_status of cn_event_aggregator (lines 147-150) or
\* lp_event_writer (lines 128-131): the next statement fails; the
\* transaction is rolled back and the error raised.
PurgeDataError ==
    /\ pc \in { "purge_subtract", "purge_zero", "purge_links", "purge_raw",
                "purge_uniq" }
    /\ tx' = db
    /\ Raise("delete_with_processing_status")
    /\ UNCHANGED << db, event_type, todo, file, line_no, data, save_pos,
                    fields, cache, other, disk >>

\* purge_incomplete, lines 187-191, and
\* log_file_mapper.delete_with_processing_status: the file rows with
\* processing status and the event type are deleted and the deletion is
\* committed, in a transaction of its own; db.close() and return.
PurgeFiles ==
    /\ pc = "purge_files"
    /\ tx' = DeleteProcessingFiles(tx, event_type)
    /\ db' = DeleteProcessingFiles(tx, event_type)
    /\ pc' = "idle"
    /\ event_type' = None
    /\ UNCHANGED << todo, file, line_no, data, save_pos, fields, cache, other,
                    err, disk >>

\* log_file_mapper.delete_with_processing_status, lines 227-230
PurgeFilesError ==
    /\ pc = "purge_files"
    /\ tx' = db
    /\ Raise("log_file_mapper.delete_with_processing_status")
    /\ UNCHANGED << db, event_type, todo, file, line_no, data, save_pos,
                    fields, cache, other, disk >>

\* The state of a process that has just started: nothing of the store is
\* uncommitted, the module globals are as the modules define them.
Fresh ==
    /\ tx' = db
    /\ pc' = "idle"
    /\ event_type' = None
    /\ todo' = << >>
    /\ file' = NoFile
    /\ line_no' = 0
    /\ data' = << >>
    /\ save_pos' = 0
    /\ fields' = << >>
    /\ cache' = {}
    /\ other' = NoOther
    /\ err' = "none"
    /\ UNCHANGED << db, disk >>

\* The process is killed in the middle of a call; the server rolls back
\* what the connection had not committed.
Crash ==
    /\ pc \notin { "idle", "failed" }
    /\ Fresh

\* The process ends, after the exception that ended its call or after the
\* calls it made; the next call is made by a new process.
Exit ==
    /\ pc \in { "idle", "failed" }
    /\ \/ pc = "failed"
       \/ cache # {}
    /\ Fresh

Next ==
    \/ consume_events
    \/ SkipFile
    \/ BeginFile
    \/ BeginFileError
    \/ SampleRate
    \/ CNLine
    \/ CNEndOfFile
    \/ SaveCell
    \/ SaveError
    \/ SaveCommit
    \/ MarkConsumed
    \/ MarkConsumedError
    \/ Return
    \/ LPLine
    \/ WriteBatch
    \/ LPEndOfFile
    \/ WriteRest
    \/ WriteError
    \/ purge_incomplete
    \/ PurgeSubtractCounts
    \/ PurgeDeleteZeroCells
    \/ PurgeDeleteLinks
    \/ PurgeDeleteRaw
    \/ PurgeDeleteUniq
    \/ PurgeDataCommit
    \/ PurgeDataError
    \/ PurgeFiles
    \/ PurgeFilesError
    \/ Crash
    \/ Exit

Spec == Init /\ [][Next]_vars

-----------------------------------------------------------------------------
(* Definitions the properties share *)

LinksTo(st, cell_id) ==
    SelectSeq(st.links, LAMBDA l : l.banner_imp_cell_id = cell_id)

LinksOf(st, file_id) ==
    SelectSeq(st.links, LAMBDA l : l.file_id = file_id)

FilesWithStatus(st, status) == { f \in st.files : f.status = status }

\* Some row of the files table has been deleted: ids are never reused.
SomeFilePurged(st) == Cardinality(st.files) < st.next_file - 1

\* Some row of bannerimpressions has been deleted.
SomeCellDeleted(st) == Cardinality(st.cells) < st.next_cell - 1

\* What one clean ingestion of the CentralNotice file of row f aggregates:
\* _process_cn_file's loop over its lines, on a new aggregation step and a
\* new process, the dimension rows being those of st.
RECURSIVE CleanData(_, _, _, _, _)
CleanData(f, st, ch, cells, n) ==
    IF n > Len(disk[f.filename].lines) THEN cells
    ELSE LET event == disk[f.filename].lines[n]
         IN  IF ~ event.valid \/ event.bot \/ ~ event.banner_shown
             THEN CleanData(f, st, ch, cells, n + 1)
             ELSE LET r == add_event(event, 100 \div ExtractSampleRate(f.filename),
                                     st, ch, NoOther, cells)
                  IN  CleanData(f, r.st, r.cache, r.data, n + 1)

Clean(f, st) == CleanData(f, st, {}, << >>, 1)

\* What a clean ingestion of f adds to the cell with the key of row.
CleanCount(f, st, row) ==
    LET cd == Clean(f, st)
    IN  SumCounts(SelectSeq([ i \in 1..Len(cd) |-> [ key |-> cd[i], count |-> cd[i].event_count ] ],
                            LAMBDA c : SameKey(row, c.key)))

\* The CentralNotice files whose save has been committed.
Saved(st) ==
    { f \in st.files :
        /\ f.impressiontype = CENTRAL_NOTICE
        /\ f.status = CONSUMED \/ LinksOf(st, f.id) # << >> }

RECURSIVE SumOver(_, _, _)
SumOver(fs, st, row) ==
    IF fs = {} THEN 0
    ELSE LET f == CHOOSE g \in fs : TRUE
         IN  CleanCount(f, st, row) + SumOver(fs \ { f }, st, row)

-----------------------------------------------------------------------------
(* Properties *)

\* C1: in every committed state of the store, the count of each row of
\* bannerimpressions is the sum of the counts of the link rows whose
\* banner_imp_cell_id is that row.
C1_CellCountIsSumOfLinks ==
    \A row \in db.cells : row.count = SumCounts(LinksTo(db, row.id))

\* C1 witness: a committed cell two files contributed to, in a store a file
\* has been purged from.
C1_Witness ==
    /\ SomeFilePurged(db)
    /\ SomeCellDeleted(db)
    /\ \E row \in db.cells : Len(LinksTo(db, row.id)) = 2

\* C2: whatever runs, crashes and purges came before, the committed cells
\* are those of one clean ingestion of each file whose save is committed:
\* each such file has exactly the links of its clean ingestion, and each
\* cell's count is the sum of what those clean ingestions give its key.  So
\* a file ingested, purged and ingested again leaves what one clean
\* ingestion leaves, beside the cells of the consumed files.
C2_PurgeThenRerunIsCleanIngestion ==
    /\ \A f \in Saved(db) :
         LET cd == Clean(f, db)
         IN  /\ Len(LinksOf(db, f.id)) = Len(cd)
             /\ \A i \in 1..Len(cd) :
                  \E row \in db.cells :
                    /\ SameKey(row, cd[i])
                    /\ \E j \in 1..Len(db.links) :
                         db.links[j] = [ file_id |-> f.id,
                                         banner_imp_cell_id |-> row.id,
                                         count |-> cd[i].event_count ]
    /\ \A row \in db.cells :
         /\ row.count = SumOver(Saved(db), db, row)
         /\ row.count > 0

\* C2 witness: cn-a is consumed, and cn-b is consumed after its first
\* ingestion was saved (it created the second cell) and purged (the cell was
\* deleted, the file row with id 2 too).
C2_Witness ==
    /\ pc = "idle"
    /\ \E a \in db.files, b \in db.files :
         /\ a.filename = "cn-a-100.log" /\ a.status = CONSUMED /\ a.id = 1
         /\ b.filename = "cn-b-25.log" /\ b.status = CONSUMED /\ b.id = 3
    /\ db.next_cell = 4
    /\ Cardinality(db.cells) = 2

\* C3: when purge_incomplete commits its data purge, a cell that has a link
\* of a consumed file and a link of a file with processing status stays, its
\* count lowered by exactly the count of the processing file's link and
\* equal to what the consumed file's link records, and its remaining links
\* are the consumed file's, unchanged.
C3_PurgeSubtractsOnlyTheProcessingLink ==
    [][ ( pc = "purge_commit" /\ pc' = "purge_files" /\ event_type = CENTRAL_NOTICE ) =>
          \A row \in db.cells :
            LET la == SelectSeq(LinksTo(db, row.id), LAMBDA l :
                        l.file_id \in { f.id : f \in FilesWithStatus(db, CONSUMED) })
                lb == SelectSeq(LinksTo(db, row.id), LAMBDA l :
                        l.file_id \in ProcessingIds(db))
            IN  ( la # << >> /\ lb # << >> ) =>
                  /\ Len(lb) = 1
                  /\ \E row2 \in db'.cells :
                       /\ row2 = [ row EXCEPT !.count = row.count - lb[1].count ]
                       /\ row2.count = SumCounts(la)
                  /\ LinksTo(db', row.id) = la ]_vars

\* C3 witness: the data purge is committed; the consumed file cn-a keeps the
\* one cell and its link, cn-b still has its file row with processing
\* status, and the cell only cn-b contributed to is deleted.
C3_Witness ==
    /\ pc = "purge_files"
    /\ event_type = CENTRAL_NOTICE
    /\ \E a \in FilesWithStatus(db, CONSUMED), b \in FilesWithStatus(db, PROCESSING) :
         /\ a.filename = "cn-a-100.log"
         /\ b.filename = "cn-b-25.log"
         /\ LinksOf(db, b.id) = << >>
         /\ \E row \in db.cells :
              /\ db.cells = { row }
              /\ row.count = 2
              /\ Len(LinksTo(db, row.id)) = 1
              /\ LinksTo(db, row.id) = LinksOf(db, a.id)
    /\ SomeCellDeleted(db)

\* C4: a cell written by save() whose key is already in the store adds its
\* count to the stored count, and one whose key is absent inserts a new row
\* holding its count; no other cell changes, and exactly one link row
\* (this file, that cell, this file's count) is appended.  The commit makes
\* the committed store what the transaction wrote.
C4_SaveAddsToExistingCellOrInserts ==
    /\ [][ ( pc = "save" /\ pc' = "save" /\ save_pos' = save_pos + 1 ) =>
             LET cell == data[save_pos]
                 old == { row \in tx.cells : SameKey(row, cell) }
                 target == CHOOSE row2 \in tx'.cells : SameKey(row2, cell)
             IN  /\ \E row2 \in tx'.cells : SameKey(row2, cell)
                 /\ IF old # {}
                    THEN \E row \in old :
                           /\ target = [ row EXCEPT !.count = row.count + cell.event_count ]
                           /\ tx'.cells \ { target } = tx.cells \ { row }
                    ELSE /\ target.count = cell.event_count
                         /\ \A row \in tx.cells : row.id # target.id
                         /\ tx'.cells \ { target } = tx.cells
                 /\ tx'.links = Append(tx.links,
                                       [ file_id |-> file.db_id,
                                         banner_imp_cell_id |-> target.id,
                                         count |-> cell.event_count ]) ]_vars
    /\ [][ ( pc = "save" /\ pc' = "mark" ) => db' = tx ]_vars

\* C4 witness: save() has written, and not yet committed, a cell that a
\* committed file had written: the row has two links and the sum of both
\* counts.
C4_Witness ==
    /\ pc = "save"
    /\ save_pos = 2
    /\ \E row \in tx.cells :
         /\ Len(LinksTo(tx, row.id)) = 2
         /\ Len(LinksTo(db, row.id)) = 1
         /\ row.count = 6
         /\ \E old \in db.cells : old.id = row.id /\ old.count = 2

PurgingCN ==
    /\ event_type = CENTRAL_NOTICE
    /\ pc \in { "purge_subtract", "purge_zero", "purge_links", "purge_commit",
                "purge_files" }

\* C5 as stated: the four steps of the aggregated purge are one
\* transaction, so every commit of purge_incomplete that changes the store
\* leaves all four applied: no link of a file with processing status, no
\* cell with count zero, no file row of the event type with processing
\* status.
C5_PurgeIsOneTransaction ==
    [][ ( PurgingCN /\ db' # db ) =>
          /\ ProcessingLinks(db') = << >>
          /\ \A row \in db'.cells : row.count # 0
          /\ ~ \E f \in db'.files : /\ f.status = PROCESSING
                                    /\ f.impressiontype = CENTRAL_NOTICE ]_vars

\* C5 amended: the purge is two transactions.  Nothing is committed while
\* the three data statements run; their commit applies all three (the links
\* of the processing files are gone, their counts are out of the cells, no
\* cell has count zero) and leaves the files table as it was; the commit
\* that follows deletes the file rows with processing status and nothing
\* else.
C5_PurgeIsTwoTransactions ==
    /\ [][ ( PurgingCN /\ pc \notin { "purge_commit", "purge_files" } ) =>
             db' = db ]_vars
    /\ [][ ( PurgingCN /\ pc = "purge_commit" /\ pc' = "purge_files" ) =>
             /\ db'.files = db.files
             /\ ProcessingLinks(db') = << >>
             /\ db'.links = SelectSeq(db.links, LAMBDA l :
                                l.file_id \notin ProcessingIds(db))
             /\ \A row \in db'.cells :
                  /\ row.count # 0
                  /\ row.count = SumCounts(LinksTo(db', row.id))
             /\ \A row \in db.cells :
                  LinksTo(db', row.id) # << >> => \E row2 \in db'.cells : row2.id = row.id ]_vars
    /\ [][ ( PurgingCN /\ pc = "purge_files" /\ db' # db ) =>
             /\ db'.cells = db.cells
             /\ db'.links = db.links
             /\ db'.files = { f \in db.files :
                                ~ ( f.status = PROCESSING
                                    /\ f.impressiontype = CENTRAL_NOTICE ) } ]_vars

\* C5 witness: the committed state a crash between the two commits leaves.
\* The save of cn-a was committed (its cell was created) and the data purge
\* too (the cell and the link are gone), the file row still has processing
\* status.
C5_Witness ==
    /\ pc = "idle"
    /\ \E f \in db.files :
         /\ db.files = { f }
         /\ f.status = PROCESSING
         /\ f.impressiontype = CENTRAL_NOTICE
    /\ db.links = << >>
    /\ db.cells = {}
    /\ db.next_cell = 2

\* C6: over every step, a file row that appears has processing status, a
\* row with consumed status stays as it is (status and counters), a row
\* that changes goes from processing to consumed, and a row that disappears
\* had processing status.
C6_LedgerHasOneEdge ==
    [][ /\ \A r \in db'.files :
             /\ r.status \in { PROCESSING, CONSUMED }
             /\ ( \A q \in db.files : q.id # r.id ) => r.status = PROCESSING
        /\ \A r \in db.files :
             /\ r.status = CONSUMED => r \in db'.files
             /\ ( \A q \in db'.files : q.id # r.id ) => r.status = PROCESSING
             /\ \A q \in db'.files :
                  ( q.id = r.id /\ q # r ) =>
                    /\ r.status = PROCESSING
                    /\ q.status = CONSUMED ]_vars

\* C6 witness: a purge has deleted a file row and finished, beside a row
\* that was consumed before it and still is.
C6_Witness ==
    /\ pc = "idle"
    /\ event_type = None
    /\ SomeFilePurged(db)
    /\ db.next_file = 3
    /\ \E r \in db.files :
         /\ db.files = { r }
         /\ r.id = 1
         /\ r.status = CONSUMED
         /\ r.consumed_events = 2
         /\ r.ignored_events = 1

\* C7: a consume_events that starts while a file row of its event type has
\* processing status ends with the error at once: the committed store and
\* the transaction are untouched and no file is selected; and after an
\* error the process does nothing to the store.
C7_ProcessingFoundStopsTheRun ==
    /\ [][ ( /\ pc = "idle"
             /\ pc' \in { "loop", "failed" }
             /\ \E f \in db.files : /\ f.status = PROCESSING
                                    /\ f.impressiontype = event_type' ) =>
             /\ pc' = "failed"
             /\ err' = "files_with_processing_status"
             /\ todo' = << >>
             /\ db' = db
             /\ tx' = tx ]_vars
    /\ [][ pc = "failed" => ( db' = db /\ pc' = "idle" ) ]_vars

\* C7 witness: the run has ended with the error, a file row of its event
\* type having processing status.
C7_Witness ==
    /\ pc = "failed"
    /\ err = "files_with_processing_status"
    /\ \E f \in db.files : f.status = PROCESSING /\ f.impressiontype = event_type
    /\ \E f \in db.files : f.status = CONSUMED

\* C8: nothing is committed while save() writes its cells and links, and
\* after a storage error in save() the transaction is rolled back: the
\* committed store is the one save() started from, it has no link of the
\* file, each cell's count is the sum of its links (so nothing of the file
\* is in a count), and the file's row has processing status.
C8_SaveErrorLeavesNothing ==
    /\ [][ ( pc = "save" /\ pc' \in { "save", "failed" } ) => db' = db ]_vars
    /\ []( ( pc = "failed" /\ err = "save" ) =>
             /\ tx = db
             /\ LinksOf(db, file.db_id) = << >>
             /\ \A row \in db.cells : row.count = SumCounts(LinksTo(db, row.id))
             /\ \E r \in db.files : r.id = file.db_id /\ r.status = PROCESSING )

\* C8 witness: save() failed on its second cell, after it had added to a
\* cell of a consumed file.
C8_Witness ==
    /\ pc = "failed"
    /\ err = "save"
    /\ save_pos = 2
    /\ \E r \in db.files : r.status = CONSUMED /\ LinksOf(db, r.id) # << >>
    /\ \E row \in db.cells : SameKey(row, data[1])

\* C9 as stated: after the abort on a sample rate outside 1..100 the store
\* holds no file row, cell or link for the file.
C9_NothingOfTheFileAfterAbort ==
    ( pc = "failed" /\ err = "sample_rate" ) =>
        /\ ~ \E r \in db.files : r.filename = file.filename
        /\ LinksOf(db, file.db_id) = << >>

\* C9 amended: a sample rate outside 1..100 ends the run at once, with
\* nothing but the file row committed for the file: the row new() inserted
\* is there with processing status and no sample rate, and no link (so no
\* count in any cell) is the file's.
C9_OnlyTheFileRowAfterAbort ==
    /\ [][ ( pc = "sample_rate" /\ ExtractSampleRate(file.filename) \notin 1..100 ) =>
             ( pc' \in { "failed", "idle" } /\ db' = db ) ]_vars
    /\ []( ( pc = "failed" /\ err = "sample_rate" ) =>
             /\ ExtractSampleRate(file.filename) \notin 1..100
             /\ tx = db
             /\ LinksOf(db, file.db_id) = << >>
             /\ \A row \in db.cells : row.count = SumCounts(LinksTo(db, row.id))
             /\ \E r \in db.files : /\ r.id = file.db_id
                                    /\ r.filename = file.filename
                                    /\ r.status = PROCESSING
                                    /\ r.sample_rate = NULL )

\* C9 witness: the run has ended on the sample rate of cn-c-200.log.
C9_Witness ==
    /\ pc = "failed"
    /\ err = "sample_rate"
    /\ file.filename = "cn-c-200.log"

RawOf(st, file_id) == SelectSeq(st.raw, LAMBDA r : r.file_id = file_id)

\* C10: a file row has consumed status only with the file's data committed:
\* the links of a CentralNotice file are those of its aggregation (as many
\* as its cells, their counts adding up to its consumed events times its
\* multiplier), the raw rows of a LandingPage file are as many as its
\* consumed events; and a row gets consumed status only in the step that
\* follows the commit of save() or of the last write, nothing being
\* uncommitted.
C10_ConsumedOnlyWithDataCommitted ==
    /\ []( \A r \in FilesWithStatus(db, CONSUMED) :
             IF r.impressiontype = CENTRAL_NOTICE
             THEN /\ Len(LinksOf(db, r.id)) = Len(Clean(r, db))
                  /\ SumCounts(LinksOf(db, r.id))
                       = r.consumed_events * ( 100 \div r.sample_rate )
             ELSE Len(RawOf(db, r.id)) = r.consumed_events )
    /\ [][ ( \E r \in FilesWithStatus(db', CONSUMED) : r \notin db.files ) =>
             ( pc = "mark" /\ tx = db /\ data = << >> /\ fields = << >> ) ]_vars

\* C10 witness: a consumed CentralNotice file with two events in a cell and
\* a consumed LandingPage file whose three events took an automatic write
\* and the last write.
C10_Witness ==
    /\ \E r \in FilesWithStatus(db, CONSUMED) :
         /\ r.impressiontype = CENTRAL_NOTICE
         /\ r.consumed_events = 2
         /\ Len(LinksOf(db, r.id)) = 1
    /\ \E r \in FilesWithStatus(db, CONSUMED) :
         /\ r.impressiontype = LANDING_PAGE
         /\ r.consumed_events = 3
         /\ Len(RawOf(db, r.id)) = 3

\* C11: a file whose row has consumed status is known to
\* log_file_mapper.known, whatever the process and its cache; a run that
\* comes to it in its list skips it; and no step gives its filename a second
\* row or changes the links and raw rows of its row.
C11_ConsumedFileIsKnownAndSkipped ==
    /\ []( \A r \in FilesWithStatus(db, CONSUMED) : known(tx, cache, r.filename) )
    /\ [][ \A r \in FilesWithStatus(db, CONSUMED) :
             /\ \A q \in db'.files : q.filename = r.filename => q = r
             /\ LinksOf(db', r.id) = LinksOf(db, r.id)
             /\ RawOf(db', r.id) = RawOf(db, r.id)
             /\ ( pc = "loop" /\ todo # << >> /\ Head(todo) = r.filename ) =>
                  /\ db' = db
                  /\ \/ pc' = "loop" /\ todo' = Tail(todo) /\ file' = file
                     \/ pc' = "idle" /\ todo' = << >> ]_vars

\* C11 witness: a CentralNotice run of a new process has come to a file
\* that a LandingPage run has consumed, a CentralNotice file being consumed
\* too.
C11_Witness ==
    /\ pc = "loop"
    /\ event_type = CENTRAL_NOTICE
    /\ todo = << "shared.log" >>
    /\ ~ is_cached(cache, _make_cache_key("shared.log"))
    /\ \E r \in FilesWithStatus(db, CONSUMED) :
         /\ r.filename = "shared.log"
         /\ r.impressiontype = LANDING_PAGE
         /\ RawOf(db, r.id) # << >>
    /\ \E r \in FilesWithStatus(db, CONSUMED) : r.impressiontype = CENTRAL_NOTICE

\* C12: the files table never has two rows with one filename, whatever
\* their event types and statuses; and a file with a row, of any event type
\* and status, is known and is not begun.
C12_OneRowPerFilename ==
    /\ []( \A r, q \in db.files : r.filename = q.filename => r = q )
    /\ []( \A r \in tx.files : known(tx, cache, r.filename) )
    /\ [][ ( pc = "loop" /\ todo # << >>
             /\ \E r \in db.files : r.filename = Head(todo) ) =>
             db'.files = db.files ]_vars

\* C12 witness: a LandingPage run has come to a file whose row, with
\* processing status, a CentralNotice run of another process left.
C12_Witness ==
    /\ pc = "loop"
    /\ event_type = LANDING_PAGE
    /\ todo = << "shared.log" >>
    /\ ~ is_cached(cache, _make_cache_key("shared.log"))
    /\ \E r \in db.files :
         /\ r.filename = "shared.log"
         /\ r.impressiontype = CENTRAL_NOTICE
         /\ r.status = PROCESSING

\* C13 as stated: a run begins no file while the files table has a row with
\* processing status, of whatever event type.  (In the loop of a run the
\* rows with processing status are those the run found when it started:
\* the row of each file it began has consumed status by then.)
C13_AnyProcessingRowBlocks ==
    [][ ( pc = "loop" /\ db'.files # db.files ) =>
          FilesWithStatus(db, PROCESSING) = {} ]_vars

\* C13 amended: a run begins no file while the files table has a row with
\* processing status and the event type of the run; a row with processing
\* status of another event type does not stop it.
C13_ProcessingRowOfTheKindBlocks ==
    [][ ( pc = "loop" /\ db'.files # db.files ) =>
          /\ \A r \in FilesWithStatus(db, PROCESSING) : r.impressiontype # event_type
          /\ \A r \in db.files : r \in db'.files
          /\ \E r \in db'.files : /\ db'.files = db.files \cup { r }
                                  /\ r.status = PROCESSING
                                  /\ r.impressiontype = event_type ]_vars

\* C13 witness: a LandingPage run reads the file it has begun while the row
\* an interrupted CentralNotice run left still has processing status.
C13_Witness ==
    /\ pc = "lines"
    /\ event_type = LANDING_PAGE
    /\ \E r \in FilesWithStatus(db, PROCESSING) :
         /\ r.impressiontype = CENTRAL_NOTICE
         /\ r.id < file.db_id
    /\ \E r \in FilesWithStatus(db, PROCESSING) :
         /\ r.impressiontype = LANDING_PAGE
         /\ r.id = file.db_id

DimensionTables == { "project", "language", "country" }

\* The step of _process_cn_file's loop on one line of the file.
CNLineStep ==
    /\ pc = "lines"
    /\ event_type = CENTRAL_NOTICE
    /\ line_no' = line_no + 1

\* C14 as stated: add_event accesses no table; the committed store and the
\* transaction are the same after a line of a CentralNotice file as before.
C14_AddEventLeavesTheStore ==
    [][ CNLineStep => ( db' = db /\ tx' = tx ) ]_vars

\* C14 amended: add_event leaves files, bannerimpressions, the links and the
\* LandingPage tables as they are, and nothing uncommitted; of the dimension
\* tables it keeps every row, and a row it inserts (and commits) has a code
\* that was neither in the cache nor in the table.
C14_AddEventInsertsDimensionRowsOnly ==
    [][ CNLineStep =>
          /\ tx' = db'
          /\ \A t \in DOMAIN db \ DimensionTables : db'[t] = db[t]
          /\ \A t \in DimensionTables :
               /\ db[t] \subseteq db'[t]
               /\ \A row \in db'[t] \ db[t] :
                    /\ ~ \E old \in db[t] : old.code = row.code \/ old.id = row.id
                    /\ \A o \in cache : o.db_id = row.id =>
                         \A prefix \in { "Project", "Language", "Country" } :
                           o.key # prefix \o row.code ]_vars

\* C14 witness: the first event of a file has been added; its dimension
\* rows are committed while no cell and no link is.
C14_Witness ==
    /\ pc = "lines"
    /\ event_type = CENTRAL_NOTICE
    /\ data # << >>
    /\ db.cells = {}
    /\ db.links = << >>
    /\ db.project # {}
    /\ db.language # {}
    /\ db.country # {}

\* The code of the row with this id in a dimension table.
CodeOf(st, tbl, id) == (CHOOSE r \in st[tbl] : r.id = id).code

Consumable(e) == e.valid /\ ~ e.bot /\ e.banner_shown

\* The grouping key of an event, as codes.
KeyOf(e) ==
    [ minute |-> e.time[1], banner |-> e.banner, campaign |-> e.campaign,
      project |-> IF DetailProjectMatch(e.project_identifier)
                  THEN e.project_identifier ELSE _OTHER_PROJECT_IDENTIFIER,
      language |-> IF e.language_code \in detail_languages
                   THEN e.language_code ELSE _OTHER_LANGUAGE_CODE,
      country |-> e.country_code ]

\* The grouping key of a row of bannerimpressions, as codes.
KeyOfRow(st, row) ==
    [ minute |-> row.timestamp[1], banner |-> row.banner,
      campaign |-> row.campaign,
      project |-> CodeOf(st, "project", row.project_id),
      language |-> CodeOf(st, "language", row.language_id),
      country |-> CodeOf(st, "country", row.country_id) ]

\* The consumed events of the file named filename that have this key.
EventsWithKey(filename, key) ==
    { i \in 1..Len(disk[filename].lines) :
        /\ Consumable(disk[filename].lines[i])
        /\ KeyOf(disk[filename].lines[i]) = key }

\* The sum of 100 / r over the consumed events with this key of the files fs.
RECURSIVE WeightedEvents(_, _)
WeightedEvents(fs, key) ==
    IF fs = {} THEN 0
    ELSE LET f == CHOOSE g \in fs : TRUE
         IN  Cardinality(EventsWithKey(f.filename, key))
               * ( 100 \div ExtractSampleRate(f.filename) )
             + WeightedEvents(fs \ { f }, key)

\* add_event on each event of a sequence, in its order.
RECURSIVE Aggregate(_, _, _)
Aggregate(events, mult, cells) ==
    IF events = << >> THEN cells
    ELSE Aggregate(Tail(events), mult,
                   IF Consumable(Head(events))
                   THEN add_event(Head(events), mult, tx, cache, other, cells).data
                   ELSE cells)

CellSet(cells) ==
    { [ cell_id |-> cells[i].cell_id, event_count |-> cells[i].event_count ] :
        i \in 1..Len(cells) }

\* C15: the count of each row of bannerimpressions is the sum, over the
\* consumed events with the row's key of the files whose save is committed,
\* of 100 / sample rate of the event's file, and each such event has a row:
\* so the count depends on neither the order of the files nor the order of
\* the events.  And what a step has aggregated when its file is read is what
\* add_event gives on every permutation of the file's lines.
C15_CountIsWeightedSumOfEvents ==
    /\ \A row \in db.cells :
         row.count = WeightedEvents(Saved(db), KeyOfRow(db, row))
    /\ \A f \in Saved(db) : \A i \in 1..Len(disk[f.filename].lines) :
         Consumable(disk[f.filename].lines[i]) =>
           \E row \in db.cells :
             KeyOfRow(db, row) = KeyOf(disk[f.filename].lines[i])
    /\ ( pc = "save" /\ save_pos = 1 ) =>
         \A p \in Permutations(1..Len(Lines(file))) :
           CellSet(Aggregate([ i \in 1..Len(Lines(file)) |-> Lines(file)[p[i]] ],
                             _sample_rate_multiplier(file), << >>))
             = CellSet(data)

\* C15 witness: cn-b (rate 25, one event in the cell) was ingested before
\* cn-a (rate 100, two events in the cell): the cell's count is 4 + 1 + 1.
C15_Witness ==
    \E a, b \in FilesWithStatus(db, CONSUMED) :
      /\ a.filename = "cn-a-100.log"
      /\ b.filename = "cn-b-25.log"
      /\ b.id < a.id
      /\ \E row \in db.cells :
           /\ row.count = 6
           /\ Len(LinksTo(db, row.id)) = 2
           /\ Cardinality(EventsWithKey(a.filename, KeyOfRow(db, row))) = 2
           /\ Cardinality(EventsWithKey(b.filename, KeyOfRow(db, row))) = 1

\* The grouping key of a cell of CNAggregationStep._data, as codes.
KeyOfCell(cell) ==
    [ minute |-> cell.time[1], banner |-> cell.banner,
      campaign |-> cell.campaign, project |-> cell.project.code,
      language |-> cell.language.code, country |-> cell.country.code ]

\* The consumed events among the lines of the file read so far.
EventsRead == { i \in 1..(line_no - 1) : Consumable(Lines(file)[i]) }

\* C16: while a CentralNotice file is read, the cells of the step are one
\* per grouping key of the events added so far: each event added is counted
\* in exactly one cell, which has the event's key, and that cell counts
\* exactly the events with this key (times the multiplier); no cell is
\* without event.
C16_OneCellPerGroupingKey ==
    ( pc = "lines" /\ event_type = CENTRAL_NOTICE ) =>
        /\ \A i \in EventsRead :
             /\ Cardinality({ c \in 1..Len(data) :
                                KeyOfCell(data[c]) = KeyOf(Lines(file)[i]) }) = 1
             /\ \A c \in 1..Len(data) :
                  KeyOfCell(data[c]) = KeyOf(Lines(file)[i]) =>
                    data[c].event_count
                      = _sample_rate_multiplier(file)
                          * Cardinality({ j \in EventsRead :
                                            KeyOf(Lines(file)[j]) = KeyOf(Lines(file)[i]) })
        /\ \A c \in 1..Len(data) :
             \E i \in EventsRead : KeyOf(Lines(file)[i]) = KeyOfCell(data[c])

\* C16: the state the claim fails in.  The step has added three events with
\* two grouping keys and holds one cell.
C16_Witness ==
    /\ pc = "lines"
    /\ event_type = CENTRAL_NOTICE
    /\ line_no = 4
    /\ Cardinality(EventsRead) = 3
    /\ Cardinality({ KeyOf(Lines(file)[i]) : i \in EventsRead }) = 2
    /\ Len(data) = 1

\* A cell's project, language or country is the row with this code.
IsRow(st, tbl, dim, code) ==
    /\ dim.code = code
    /\ \E r \in st[tbl] : r.code = code /\ r.id = dim.db_id

\* C17 (the detail pattern matches enwiki alone and the detail languages are
\* en alone): when add_event has added an event, a cell of the step has the
\* event's project if it matches the detail pattern and 'other_project' if
\* not, the event's language if it is a detail language and 'other' if not,
\* and the event's country, each with the id of its row; no row is made for
\* a project or language that is not a detail one; each table has one row
\* per code; and once the process has the 'other_project' or the 'other' row
\* it keeps it.
C17_DetailOrSentinelDimension ==
    /\ [][ ( CNLineStep /\ Consumable(Lines(file)[line_no]) /\ pc' = "lines" ) =>
             LET event == Lines(file)[line_no]
                 key == [ project |-> IF event.project_identifier = "enwiki"
                                      THEN "enwiki" ELSE "other_project",
                          language |-> IF event.language_code = "en"
                                       THEN "en" ELSE "other" ]
             IN  /\ \E c \in 1..Len(data') :
                      /\ IsRow(db', "project", data'[c].project, key.project)
                      /\ IsRow(db', "language", data'[c].language, key.language)
                      /\ IsRow(db', "country", data'[c].country, event.country_code)
                      /\ data'[c].event_count > 0
                 /\ \A r \in db'.project \ db.project : r.code = key.project
                 /\ \A r \in db'.language \ db.language : r.code = key.language
                 /\ \A r \in db'.country \ db.country : r.code = event.country_code
                 /\ other.project # NULL => other'.project = other.project
                 /\ other.language # NULL => other'.language = other.language
                 /\ key.project = "other_project" =>
                      \E r \in db'.project : /\ r.code = "other_project"
                                              /\ r.id = other'.project
                 /\ key.language = "other" =>
                      \E r \in db'.language : /\ r.code = "other"
                                               /\ r.id = other'.language ]_vars
    /\ []( \A t \in DimensionTables : \A r, q \in db[t] : r.code = q.code => r = q )

\* C17 witness: the step has added events of two projects and languages
\* that are not detail ones, the second with the rows the process had; they
\* are in cells of 'other_project' and 'other', one per country, beside a
\* cell of enwiki and en; neither project has a row.
C17_Witness ==
    /\ pc = "lines"
    /\ event_type = CENTRAL_NOTICE
    /\ line_no = 6
    /\ other.project # NULL
    /\ other.language # NULL
    /\ \E c, d \in 1..Len(data) :
         /\ data[c].project.code = _OTHER_PROJECT_IDENTIFIER
         /\ data[c].language.code = _OTHER_LANGUAGE_CODE
         /\ data[c].country.code = "US"
         /\ data[d].project = data[c].project
         /\ data[d].language = data[c].language
         /\ data[d].country.code = "CA"
    /\ \E c \in 1..Len(data) :
         /\ data[c].project.code = "enwiki"
         /\ data[c].language.code = "en"
    /\ { r.code : r \in db.project } = { "enwiki", "other_project" }
    /\ { r.code : r \in db.language } = { "en", "other" }
    /\ { r.code : r \in db.country } = { "US", "CA" }

\* C18: when purge_incomplete for CentralNotice has finished, the committed
\* store has no file row of CentralNotice with processing status (so that
\* files_with_processing_status is false for it), no link of a file without
\* row or with processing status, no cell with count zero and no cell
\* without link (a cell only purged files had contributed to is gone), and
\* each cell counts the links left.
C18_AfterThePurge ==
    [][ ( /\ pc = "purge_files"
          /\ event_type = CENTRAL_NOTICE
          /\ pc' = "idle"
          /\ \/ db' # db
             \/ \A f \in FilesWithStatus(db, PROCESSING) :
                  f.impressiontype # CENTRAL_NOTICE ) =>
          /\ \A f \in FilesWithStatus(db', PROCESSING) :
               f.impressiontype # CENTRAL_NOTICE
          /\ ~ files_with_processing_status(db', CENTRAL_NOTICE)
          /\ tx' = db'
          /\ \A i \in 1..Len(db'.links) :
               \E f \in FilesWithStatus(db', CONSUMED) : f.id = db'.links[i].file_id
          /\ \A row \in db'.cells :
               /\ row.count # 0
               /\ LinksTo(db', row.id) # << >>
               /\ row.count = SumCounts(LinksTo(db', row.id))
          /\ \A row \in db.cells :
               ( \A i \in 1..Len(db'.links) : db'.links[i].banner_imp_cell_id # row.id )
                 => row \notin db'.cells ]_vars

\* C18 witness: a purge has finished that deleted the row of a file, the
\* cell only that file had contributed to, and the file's part of a cell
\* that has the count of the consumed file's link again.
C18_Witness ==
    /\ pc = "idle"
    /\ event_type = None
    /\ db.next_file = 3
    /\ db.next_cell = 3
    /\ Cardinality(db.files) = 1
    /\ FilesWithStatus(db, PROCESSING) = {}
    /\ Len(db.links) = 1
    /\ \E row \in db.cells :
         /\ db.cells = { row }
         /\ row.count = 2
         /\ db.links[1].count = 2
         /\ db.links[1].banner_imp_cell_id = row.id

\* C19: a file name without a sample rate in 1..100 ends the run, not the
\* file alone: the step that reads the rate raises with the rest of the list
\* unvisited, and the process then does nothing but end.  In the state the
\* run ends in, the row of the file is the newest row of the files table (no
\* file of the rest of the list has a row made after it), nothing is in the
\* step's cells, and no link is the file's.
C19_BadSampleRateEndsTheRun ==
    /\ [][ ( pc = "sample_rate" /\ ExtractSampleRate(file.filename) \notin 1..100 ) =>
             /\ db' = db
             /\ data' = << >>
             /\ \/ pc' = "failed" /\ err' = "sample_rate" /\ todo' = todo
                \/ pc' = "idle" /\ todo' = << >> ]_vars
    /\ [][ ( pc = "failed" /\ err = "sample_rate" ) =>
             ( db' = db /\ pc' = "idle" /\ todo' = << >> ) ]_vars
    /\ []( ( pc = "failed" /\ err = "sample_rate" ) =>
             /\ data = << >>
             /\ file.consumed_events = NULL
             /\ LinksOf(db, file.db_id) = << >>
             /\ db.next_file = file.db_id + 1
             /\ \A r \in db.files : r.id <= file.db_id
             /\ \A i \in 1..Len(todo) : \A r \in db.files :
                  r.filename = todo[i] => ( r.id < file.db_id /\ r.status = CONSUMED ) )

\* C19 witness: the run has ended on the name of shared.log, the first file
\* of its list; cn-a-100.log, the next, has no row.
C19_Witness ==
    /\ pc = "failed"
    /\ err = "sample_rate"
    /\ file.filename = "shared.log"
    /\ todo = << "cn-a-100.log" >>
    /\ \A r \in db.files : r.filename # "cn-a-100.log"
    /\ db.cells = {}

\* C20: in every committed state of the store, each link's count is zero or
\* more, the link's cell exists and the count is at most the cell's count.
C20_LinkCountWithinCellCount ==
    \A i \in 1..Len(db.links) :
      /\ db.links[i].count >= 0
      /\ \E row \in db.cells :
           /\ row.id = db.links[i].banner_imp_cell_id
           /\ db.links[i].count <= row.count

\* C20 witness: after a purge that deleted a cell, a cell of count 6 has a
\* link of 4 made before a link of 2, and another cell has one link with
\* the cell's count.
C20_Witness ==
    /\ SomeCellDeleted(db)
    /\ \E row \in db.cells : \E i, j \in 1..Len(db.links) :
         /\ i < j
         /\ row.count = 6
         /\ db.links[i].banner_imp_cell_id = row.id /\ db.links[i].count = 4
         /\ db.links[j].banner_imp_cell_id = row.id /\ db.links[j].count = 2
    /\ \E row \in db.cells : \E i \in 1..Len(db.links) :
         /\ db.links[i].banner_imp_cell_id = row.id
         /\ db.links[i].count = row.count


\* The LandingPage files with processing status.
ProcessingLP(st) ==
    { f \in st.files : f.status = PROCESSING /\ f.impressiontype = LANDING_PAGE }

\* C21: when the process is killed while it reads or writes a LandingPage
\* file, however many of the file's batches are committed, the file's row
\* is committed with processing status; the data commit of the purge that
\* follows removes the raw rows and the dedup rows whose file has processing
\* status, those and no others, and changes no file row; the step after it
\* removes the file rows with processing status of the kind and nothing
\* else, and leaves no raw or dedup row whose file has no row.
C21_KilledRawFileIsPurged ==
    [][ /\ ( /\ event_type = LANDING_PAGE
             /\ pc \in { "lines", "write", "write_rest", "mark" }
             /\ pc' = "idle" )
           => /\ db' = db
              /\ \E f \in ProcessingLP(db') :
                   /\ f.id = file.db_id
                   /\ f.filename = file.filename
        /\ ( /\ event_type = LANDING_PAGE
             /\ pc = "purge_commit"
             /\ pc' = "purge_files" )
           => /\ db'.raw = SelectSeq(db.raw, LAMBDA r :
                     \E f \in db.files : f.id = r.file_id /\ f.status = CONSUMED)
              /\ db'.uniq = { u \in db.uniq :
                     \E f \in db.files : f.id = u.file_id /\ f.status = CONSUMED }
              /\ db'.files = db.files
        /\ ( /\ event_type = LANDING_PAGE
             /\ pc = "purge_files"
             /\ db' # db )
           => /\ db'.files = db.files \ ProcessingLP(db)
              /\ db'.raw = db.raw
              /\ db'.uniq = db.uniq
              /\ \A i \in 1..Len(db'.raw) :
                   \E f \in db'.files : f.id = db'.raw[i].file_id
              /\ \A u \in db'.uniq :
                   \E f \in db'.files : f.id = u.file_id
      ]_vars

\* C21 witness: a purge has deleted, and not yet committed, the three raw
\* rows and the dedup row of a file with processing status, killed after
\* its two batches were committed; the raw row and the dedup row of a
\* consumed file are there.
C21_Witness ==
    /\ pc = "purge_commit"
    /\ event_type = LANDING_PAGE
    /\ \E f \in ProcessingLP(db) : \E g \in FilesWithStatus(db, CONSUMED) :
         /\ Len(RawOf(db, f.id)) = 3
         /\ RawOf(tx, f.id) = << >>
         /\ \E u \in db.uniq \ tx.uniq : u.file_id = f.id
         /\ RawOf(tx, g.id) # << >>
         /\ \E u \in tx.uniq : u.file_id = g.id


-----------------------------------------------------------------------------
(* LPWriteStep: the buffer and its flushes *)

\* The raw rows of the events of a buffer.
RawFields(batch) == [ i \in 1..Len(batch) |-> batch[i].lp_raw_fields ]

\* A step of a LandingPage file that adds an event to the buffer.
LPAddStep ==
    /\ pc = "lines"
    /\ event_type = LANDING_PAGE
    /\ Len(fields') = Len(fields) + 1

C23_NoFlushAboveMaxBatch ==
    [][ /\ ( pc \in { "write", "write_rest" } /\ pc' \in { "lines", "mark" } )
           => Len(fields) <= lp_max_batch
        /\ Len(db'.raw) <= Len(db.raw) + lp_max_batch
      ]_vars

\* C23 witness: the step is about to write a buffer of lp_max_batch + 1
\* events, the event just added having exceeded lp_max_batch.
C23_Witness ==
    /\ pc = "write"
    /\ event_type = LANDING_PAGE
    /\ Len(fields) = lp_max_batch + 1
    /\ RawOf(db, file.db_id) = << >>


-----------------------------------------------------------------------------
(* donatewiki_unique *)

\* The unique key of donatewiki_unique.
SameUnique(u, v) ==
    /\ u.utm_source = v.utm_source
    /\ u.contact_id = v.contact_id

\* A write of the step is committed.
LPWriteStep ==
    /\ event_type = LANDING_PAGE
    /\ pc \in { "write", "write_rest" }
    /\ pc' \in { "lines", "mark" }

\* C24: donatewiki_unique never has two rows of one ( utm_source,
\* contact_id ); a committed write leaves every row the table had as it was
\* (link_id and file_id included), adds for each key the table did not have
\* the row of the first event of the batch with that key and no other row,
\* and adds one raw row for each event of the batch, duplicates included;
\* and no other step of a run changes the table.
C24_FirstDedupRowStays ==
    [][ /\ \A u, v \in db'.uniq : SameUnique(u, v) => u = v
        /\ \A u, v \in tx'.uniq : SameUnique(u, v) => u = v
        /\ LPWriteStep
           => /\ db.uniq \subseteq db'.uniq
              /\ \A u \in db'.uniq \ db.uniq :
                   \E i \in 1..Len(fields) :
                     /\ u = fields[i].donatewiki_unique_fields
                     /\ \A j \in 1..(i - 1) :
                          ~ SameUnique(u, fields[j].donatewiki_unique_fields)
              /\ \A i \in 1..Len(fields) :
                   \E u \in db'.uniq :
                     SameUnique(u, fields[i].donatewiki_unique_fields)
              /\ db'.raw = db.raw \o [ i \in 1..Len(fields) |->
                                         fields[i].lp_raw_fields ]
        /\ ( pc \in { "loop", "sample_rate", "lines", "save", "mark" } )
           => db'.uniq = db.uniq
      ]_vars

\* C24 witness: two files are consumed; the first had two events of source
\* s1 and contact c1 in one batch (links l1 and l2), the second one more
\* (link l4); the table has the row of l1, owned by the first file, and the
\* raw table has the three events of source s1.
C24_Witness ==
    /\ pc = "loop"
    /\ \E f, g \in FilesWithStatus(db, CONSUMED) :
         /\ f.filename = "lp-a.log"
         /\ g.filename = "lp-b.log"
         /\ \E u \in db.uniq :
              /\ u.utm_source = "s1" /\ u.contact_id = "c1"
              /\ u.link_id = "l1" /\ u.file_id = f.id
         /\ Len(SelectSeq(RawOf(db, f.id), LAMBDA r : r.utm_source = "s1")) = 2
         /\ Len(SelectSeq(RawOf(db, g.id), LAMBDA r : r.utm_source = "s1")) = 1
         /\ Cardinality(db.uniq) = 2


\* C25: when an insert of a write fails, the step commits nothing and
\* leaves nothing uncommitted; the raw rows of the file in the store are
\* those of the events written before (the events consumed less those of
\* the buffer), the file's row has processing status, the call ends with
\* the error, and the process changes nothing of the store afterwards.
C25_FailedWriteCommitsNothing ==
    [][ /\ ( pc \in { "write", "write_rest" } /\ pc' = "failed" )
           => /\ db' = db
              /\ tx' = db
              /\ err' = "write_events_not_yet_written"
              /\ Len(RawOf(db', file.db_id))
                   = file.consumed_events + ( IF pc = "write" THEN 1 ELSE 0 )
                     - Len(fields)
              /\ \E f \in ProcessingLP(db') : f.id = file.db_id
        /\ ( pc = "failed" /\ err = "write_events_not_yet_written" )
           => /\ db' = db
              /\ pc' \in { "failed", "idle" }
      ]_vars

\* C25 witness: the write at the end of the file has failed; the two raw
\* rows and the dedup row of the batch committed before are in the store,
\* the event of the failed write is in neither table, and the file's row
\* has processing status.
C25_Witness ==
    /\ pc = "failed"
    /\ err = "write_events_not_yet_written"
    /\ file.filename = "lp-a.log"
    /\ Len(fields) = 1
    /\ Len(RawOf(db, file.db_id)) = 2
    /\ tx = db
    /\ \A u \in db.uniq : u.link_id # fields[1].donatewiki_unique_fields.link_id
    /\ \E u \in db.uniq : u.file_id = file.db_id
    /\ \E f \in ProcessingLP(db) : f.id = file.db_id


-----------------------------------------------------------------------------
(* The loop over the files *)

\* The file rows of an event type with processing status.
ProcessingOf(st, type) ==
    { f \in st.files : f.status = PROCESSING /\ f.impressiontype = type }

\* A call of consume_events is between its precondition and its end.
Running ==
    pc \in { "loop", "sample_rate", "lines", "save", "mark", "write",
             "write_rest" }

\* The step of consume_events that begins a file.
BeginStep ==
    /\ pc = "loop"
    /\ pc' \in { "sample_rate", "lines" }

\* C26: while consume_events runs, at most one file row of its event type
\* has processing status, in the store and in the transaction, and between
\* two files none has; the step that begins a file finds no row of the type
\* with processing status, so that every file begun before has been marked
\* consumed, and commits the row of the one file it begins.
C26_OneFileAtATime ==
    /\ [] ( Running
            => /\ Cardinality(ProcessingOf(db, event_type)) <= 1
               /\ Cardinality(ProcessingOf(tx, event_type)) <= 1
               /\ ( pc = "loop" => ProcessingOf(db, event_type) = {} )
               /\ ( pc # "loop"
                      => \A f \in ProcessingOf(db, event_type) :
                           f.id = file.db_id ) )
    /\ [][ BeginStep
           => /\ ProcessingOf(db, event_type) = {}
              /\ \A f \in db.files :
                   f.impressiontype = event_type => f.status = CONSUMED
              /\ \E f \in db'.files :
                   /\ f.id = file'.db_id
                   /\ f.filename = Head(todo)
                   /\ ProcessingOf(db', event_type) = { f }
              /\ db'.files \ ProcessingOf(db', event_type) = db.files
         ]_vars

\* C26 witness: the second file of the sequence is being read and a third
\* is to come; the row of the first has consumed status and the row of the
\* second is the only one with processing status.
C26_Witness ==
    /\ pc = "lines"
    /\ event_type = CENTRAL_NOTICE
    /\ file.filename = "cn-b-25.log"
    /\ todo = << "cn-c-200.log" >>
    /\ is_cached(cache, _make_cache_key("cn-a-100.log"))
    /\ \E f \in FilesWithStatus(db, CONSUMED) : f.filename = "cn-a-100.log"
    /\ \E f \in db.files : ProcessingOf(db, event_type) = { f } /\ f.id = file.db_id


-----------------------------------------------------------------------------
(* Lines that are not consumed *)

\* The line is rejected: the event made of it is not valid.
Rejected(e) == ~ e.valid

\* The event is valid and the loop over the lines ignores it.
Ignored(type, e) ==
    /\ e.valid
    /\ IF type = CENTRAL_NOTICE
       THEN e.bot \/ ~ e.banner_shown
       ELSE e.bot \/ e.project_identifier \notin _CONSUMIBLE_LP_PROJECT_IDENTIFIERS

\* A step of the loop over the lines of the file.
LineStep ==
    /\ pc = "lines"
    /\ line_no' = line_no + 1

\* How many lines of the file are rejected, and how many ignored.
CountRejected(f) ==
    Cardinality({ i \in 1..Len(Lines(f)) : Rejected(Lines(f)[i]) })

CountIgnored(type, f) ==
    Cardinality({ i \in 1..Len(Lines(f)) : Ignored(type, Lines(f)[i]) })

\* C27: the step that reads a rejected line adds one to invalid_events, the
\* step that reads an ignored event adds one to ignored_events, and either
\* changes no other counter, nothing of the store or of the transaction,
\* no cell of the aggregation and nothing of the buffer, raises nothing and
\* goes on with the next line; and the row of a file marked consumed has
\* the numbers of its rejected and of its ignored lines, its three counters
\* adding up to the number of its lines.
C27_UnconsumedLineIsOnlyCounted ==
    [][ /\ ( LineStep /\ Rejected(Lines(file)[line_no]) )
           => /\ file' = [ file EXCEPT !.invalid_events = @ + 1 ]
              /\ UNCHANGED << db, tx, data, fields, cache, other, pc, err, todo >>
        /\ ( LineStep /\ Ignored(event_type, Lines(file)[line_no]) )
           => /\ file' = [ file EXCEPT !.ignored_events = @ + 1 ]
              /\ UNCHANGED << db, tx, data, fields, cache, other, pc, err, todo >>
        /\ ( pc = "mark" /\ pc' = "loop" )
           => \E f \in db'.files :
                /\ f.id = file.db_id
                /\ f.status = CONSUMED
                /\ f.invalid_events = CountRejected(file)
                /\ f.ignored_events = CountIgnored(event_type, file)
                /\ f.consumed_events + f.ignored_events + f.invalid_events
                     = Len(Lines(file))
      ]_vars

\* C27 witness: a file of three lines, the first rejected and the second
\* ignored, is consumed with counters 1, 1 and 1, and the store has the one
\* raw row of its third line.
C27_Witness ==
    \E f \in FilesWithStatus(db, CONSUMED) :
      /\ f.filename = "lp-b.log"
      /\ Rejected(disk[f.filename].lines[1])
      /\ Ignored(LANDING_PAGE, disk[f.filename].lines[2])
      /\ f.invalid_events = 1
      /\ f.ignored_events = 1
      /\ f.consumed_events = 1
      /\ Len(RawOf(db, f.id)) = 1


-----------------------------------------------------------------------------
(* The dimension tables *)

\* _CACHE_KEY_PREFIX of the mapper of a dimension table.
CacheKeyPrefix(tbl) ==
    CASE tbl = "project" -> "Project"
      [] tbl = "language" -> "Language"
      [] tbl = "country" -> "Country"

\* The codes the mappers are called with: those of the valid events of the
\* files, and those of the two sentinel rows.
EventCodes(tbl) ==
    LET events == UNION { { disk[f].lines[i] : i \in 1..Len(disk[f].lines) } :
                          f \in DOMAIN disk }
        valid == { e \in events : e.valid }
    IN  CASE tbl = "project" ->
               { e.project_identifier : e \in valid } \cup { _OTHER_PROJECT_IDENTIFIER }
          [] tbl = "language" ->
               { e.language_code : e \in valid } \cup { _OTHER_LANGUAGE_CODE }
          [] tbl = "country" -> { e.country_code : e \in valid }

OneRowPerCode(st, tbl) ==
    \A r, s \in st[tbl] : ( r.code = s.code \/ r.id = s.id ) => r = s

\* C28: in the store and in the transaction a dimension table has one row
\* for a code and one for an id; no step of a run, a crash or a purge
\* deletes or changes a row of a dimension table; every object of a mapper
\* in the cache has the id of the row of its code; and wherever the lines
\* of a file are read, get_or_new for a code whose row exists gives the id of that row and
\* writes nothing, get_or_new for a code that has no row inserts one row
\* with an id no row has, and the call made again, with the cache or with
\* the cache of a new process, gives the same id.
C28_OneDimensionRowPerCode ==
    /\ [] \A tbl \in DimensionTables :
            /\ OneRowPerCode(db, tbl)
            /\ OneRowPerCode(tx, tbl)
            /\ \A r \in db[tbl] :
                 get_obj(cache, CacheKeyPrefix(tbl) \o r.code) \in { NULL, r.id }
            /\ \A code \in EventCodes(tbl) :
                 get_obj(cache, CacheKeyPrefix(tbl) \o code) # NULL
                   => \E r \in db[tbl] : r.code = code
            /\ \A code \in IF pc = "lines" THEN EventCodes(tbl) ELSE {} :
                 LET r == get_or_new(tbl, CacheKeyPrefix(tbl), code, tx, cache)
                     again == get_or_new(tbl, CacheKeyPrefix(tbl), code,
                                         r.st, r.cache)
                     anew == get_or_new(tbl, CacheKeyPrefix(tbl), code, r.st, {})
                 IN  /\ IF \E row \in tx[tbl] : row.code = code
                        THEN /\ \E row \in tx[tbl] :
                                  row.code = code /\ row.id = r.db_id
                             /\ r.st = tx
                        ELSE /\ r.st = [ tx EXCEPT ![tbl] =
                                           @ \cup { [ code |-> code,
                                                      id |-> r.db_id ] } ]
                             /\ \A row \in tx[tbl] : row.id # r.db_id
                     /\ again.db_id = r.db_id /\ again.st = r.st
                     /\ anew.db_id = r.db_id /\ anew.st = r.st
    /\ [][ \A tbl \in DimensionTables :
             /\ db[tbl] \subseteq db'[tbl]
             /\ tx[tbl] \subseteq tx'[tbl] ]_vars

\* C28 witness: a file's second line is to be read by a process that did
\* not consume the file before it, after a purge; the row of enwiki that the
\* earlier process inserted is the one row of its code, and the object of
\* the cache, made from that row, has its id.
C28_Witness ==
    /\ pc = "lines"
    /\ event_type = CENTRAL_NOTICE
    /\ file.filename = "cn-b-25.log"
    /\ line_no = 2
    /\ SomeFilePurged(db)
    /\ \E f \in FilesWithStatus(db, CONSUMED) : f.filename = "cn-a-100.log"
    /\ ~ is_cached(cache, _make_cache_key("cn-a-100.log"))
    /\ \E r \in db.project :
         /\ r.code = "enwiki"
         /\ get_obj(cache, "Project" \o "enwiki") = r.id
    /\ Cardinality(db.project) = 1


-----------------------------------------------------------------------------
(* from_latest *)

\* The files of the directory of an event type whose time is from_time or
\* later and to_time or earlier, NULL being no limit.
Within(type, from_time, to_time) ==
    { f \in DOMAIN disk :
        /\ type \in disk[f].types
        /\ from_time = NULL \/ disk[f].time >= from_time
        /\ to_time = NULL \/ disk[f].time <= to_time }

\* The sequence has each file of the set once, in the order of the times.
Selects(seq, names) ==
    /\ { seq[i] : i \in 1..Len(seq) } = names
    /\ Len(seq) = Cardinality(names)
    /\ \A i, j \in 1..Len(seq) : i < j => disk[seq[i]].time <= disk[seq[j]].time

\* The consumed rows of an event type.
ConsumedOf(st, type) ==
    { f \in st.files : f.status = CONSUMED /\ f.impressiontype = type }

\* C29: in every state and for each event type, get_lastest_time is NULL
\* when no row of the type has consumed status and is otherwise the
\* timestamp of such a row that no such row exceeds, whatever rows with
\* processing status or of the other type there are; the files selected
\* with it as from_time are those of the type with that time or a later
\* one, all of them when it is NULL, up to to_time; and the step that
\* starts a run takes the files of one such selection, from_latest being
\* one of the choices.
C29_FromLatestSelection ==
    /\ [] \A type \in EventTypes :
            LET latest == get_lastest_time(tx, type)
            IN  /\ ConsumedOf(tx, type) = {} => latest = NULL
                /\ ConsumedOf(tx, type) # {}
                     => /\ \E f \in ConsumedOf(tx, type) : f.timestamp = latest
                        /\ \A f \in ConsumedOf(tx, type) : f.timestamp <= latest
                /\ \A to_time \in Times \cup { NULL } :
                     Selects(file_infos(type, latest, to_time),
                             Within(type, latest, to_time))
    /\ [][ ( pc = "idle" /\ pc' = "loop" )
           => /\ ProcessingOf(tx, event_type') = {}
              /\ \E from_time \in Times \cup { NULL }, to_time \in Times \cup { NULL } :
                   Selects(todo', Within(event_type', from_time, to_time))
         ]_vars

\* C29 witness: a LandingPage run has selected the two LandingPage files;
\* the latest time of the consumed LandingPage files is 1, that of the file
\* consumed, while a CentralNotice file of time 2 is consumed and one of
\* time 3 has processing status.
C29_Witness ==
    /\ pc = "loop"
    /\ event_type = LANDING_PAGE
    /\ todo = << "lp-a.log", "lp-b.log" >>
    /\ get_lastest_time(tx, LANDING_PAGE) = 1
    /\ \E f \in ConsumedOf(db, LANDING_PAGE) : f.filename = "lp-a.log"
    /\ \E f \in ConsumedOf(db, CENTRAL_NOTICE) : f.timestamp = 2
    /\ \E f \in ProcessingOf(db, CENTRAL_NOTICE) : f.timestamp = 3


-----------------------------------------------------------------------------
(* What consume_events leaves *)

\* Every row of s is in t: a file row with its id, filename and type, a
\* cell with its id, its key and a count not less, the links and the raw
\* rows in their order, the dedup rows as they are.
Keeps(s, t) ==
    /\ \A f \in s.files :
         \E g \in t.files : /\ g.id = f.id
                            /\ g.filename = f.filename
                            /\ g.impressiontype = f.impressiontype
    /\ \A c \in s.cells :
         \E d \in t.cells : /\ d.id = c.id
                            /\ [ d EXCEPT !.count = 0 ] = [ c EXCEPT !.count = 0 ]
                            /\ d.count >= c.count
    /\ Len(s.links) <= Len(t.links)
    /\ s.links = SubSeq(t.links, 1, Len(s.links))
    /\ Len(s.raw) <= Len(t.raw)
    /\ s.raw = SubSeq(t.raw, 1, Len(s.raw))
    /\ s.uniq \subseteq t.uniq

\* purge_incomplete is at one of its statements.
Purging ==
    pc \in { "purge_subtract", "purge_zero", "purge_links", "purge_raw",
             "purge_uniq", "purge_commit", "purge_files" }

\* C30: a step that is not one of purge_incomplete keeps every committed
\* file row, cell, link, raw row and dedup row and lowers no committed
\* count, and leaves in the transaction either the rows it had or, after a
\* rollback, those of the store; nothing that a run left is removed when
\* the next run or the purge starts; within a run the files to come are
\* distinct, are taken off the list one at a time and never put back, and
\* the step that begins a file finds no row of its name.
C30_ConsumeRemovesNothing ==
    /\ [][ ~ Purging
           => /\ Keeps(db, db')
              /\ Keeps(tx, tx') \/ tx' = db ]_vars
    /\ [][ Running
           => /\ \A i, j \in 1..Len(todo) : i # j => todo[i] # todo[j]
              /\ Running' => todo' = todo \/ ( todo # << >> /\ todo' = Tail(todo) )
              /\ BeginStep
                   => /\ todo' = Tail(todo)
                      /\ file'.filename = Head(todo)
                      /\ \A f \in db.files : f.filename # Head(todo) ]_vars

\* C30 witness: a run that found a cell of count 2 with its link has added
\* 4 to it for a second file and committed; the first link is as it was and
\* no file row has ever been deleted.
C30_Witness ==
    /\ pc = "mark"
    /\ event_type = CENTRAL_NOTICE
    /\ file.filename = "cn-b-25.log"
    /\ ~ SomeFilePurged(db)
    /\ ~ SomeCellDeleted(db)
    /\ \E c \in db.cells :
         /\ c.count = 6
         /\ Len(LinksTo(db, c.id)) = 2
         /\ LinksTo(db, c.id)[1].count = 2
         /\ LinksTo(db, c.id)[2].count = 4


-----------------------------------------------------------------------------
(* The crash signal *)

\* The ids of the files that own a link, a raw row or a dedup row.
Owners(st) ==
    { st.links[i].file_id : i \in 1..Len(st.links) }
      \cup { st.raw[i].file_id : i \in 1..Len(st.raw) }
      \cup { u.file_id : u \in st.uniq }

\* consume_events ends with an exception or the process is killed in it.
AbnormalEnd ==
    /\ Running
    /\ pc' \in { "failed", "idle" }
    /\ ~ ( pc = "loop" /\ todo = << >> )

\* consume_events returns.
NormalReturn ==
    /\ pc = "loop"
    /\ todo = << >>
    /\ pc' = "idle"

\* C31: when consume_events ends abnormally the end commits no file row,
\* cell, link, raw row or dedup row, the row of the file it was processing
\* is committed with processing status,
\* and every file that owns a committed link, raw row or dedup row and has
\* no row with consumed status has a row with processing status; when
\* consume_events returns, no row of its event type has processing status;
\* and in every committed state a file that owns data has a row.
C31_ProcessingRowIsTheCrashSignal ==
    /\ [][ /\ AbnormalEnd
              => /\ \A tbl \in { "files", "cells", "links", "raw", "uniq" } :
                      db'[tbl] = db[tbl]
                 /\ pc # "loop"
                      => \E f \in ProcessingOf(db', event_type) :
                           /\ f.id = file.db_id
                           /\ f.filename = file.filename
                 /\ \A id \in Owners(db') :
                      ( \A f \in FilesWithStatus(db', CONSUMED) : f.id # id )
                        => \E f \in FilesWithStatus(db', PROCESSING) : f.id = id
           /\ NormalReturn
              => /\ ProcessingOf(db', event_type) = {}
                 /\ db' = db
         ]_vars
    /\ [] \A id \in Owners(db) : \E f \in db.files : f.id = id

\* C31 witness: the process was killed after the save of a file was
\* committed and before the file was marked: the store has the file's links
\* and its row, with processing status, and the process is a new one.
C31_Witness ==
    /\ pc = "idle"
    /\ cache = {}
    /\ \E f \in ProcessingOf(db, CENTRAL_NOTICE) :
         /\ LinksOf(db, f.id) # << >>
         /\ f.consumed_events = NULL


-----------------------------------------------------------------------------
(* The events the aggregation ignores *)

\* C32: the step that reads a valid CentralNotice event of a declared bot,
\* of a banner preview or with the banner not shown adds one to
\* ignored_events and leaves the aggregation, the store and the other
\* counters as they are; the step that reads any other valid event passes
\* it to add_event, and adds one to consumed_events unless add_event raises.
C32_BotsPreviewsAndNotShownAreIgnored ==
    [][ CNLineStep
        => LET event == Lines(file)[line_no]
           IN  /\ ( /\ event.valid
                    /\ event.bot \/ event.testing \/ ~ event.banner_shown )
                  => /\ file' = [ file EXCEPT !.ignored_events = @ + 1 ]
                     /\ UNCHANGED << db, tx, data, cache, other, pc >>
               /\ ( /\ event.valid
                    /\ ~ ( event.bot \/ event.testing \/ ~ event.banner_shown ) )
                  => \/ pc' = "failed"
                     \/ /\ file' = [ file EXCEPT !.consumed_events = @ + 1 ]
                        /\ data' # data
      ]_vars

\* C32 witness: a file whose first event is a banner preview that was shown
\* is consumed with two consumed events and none ignored, and the cell of
\* the preview's banner has the preview's count.
C32_Witness ==
    \E f \in FilesWithStatus(db, CONSUMED) :
      /\ f.filename = "cn-t-100.log"
      /\ disk[f.filename].lines[1].testing
      /\ f.consumed_events = 2
      /\ f.ignored_events = 0
      /\ \E row \in db.cells :
           /\ row.banner = disk[f.filename].lines[1].banner
           /\ row.count = 1

-----------------------------------------------------------------------------
(* Recovery: purge_incomplete, then consume_events with from_latest *)

\* consume_events called for CentralNotice with from_latest and any to_time.
consume_from_latest ==
    /\ consume_events
    /\ event_type' = CENTRAL_NOTICE
    /\ pc' = "loop"
         => \E to_time \in Times \cup { NULL } :
              todo' = file_infos(CENTRAL_NOTICE,
                                 get_lastest_time(tx, CENTRAL_NOTICE), to_time)

\* purge_incomplete called for CentralNotice.
purge_central_notice ==
    /\ purge_incomplete
    /\ event_type' = CENTRAL_NOTICE

\* The calls an operator makes for CentralNotice: consume_events with
\* from_latest and purge_incomplete, by processes that may be killed.
NextRecovery ==
    \/ consume_from_latest
    \/ SkipFile
    \/ BeginFile
    \/ BeginFileError
    \/ SampleRate
    \/ CNLine
    \/ CNEndOfFile
    \/ SaveCell
    \/ SaveError
    \/ SaveCommit
    \/ MarkConsumed
    \/ MarkConsumedError
    \/ Return
    \/ purge_central_notice
    \/ PurgeSubtractCounts
    \/ PurgeDeleteZeroCells
    \/ PurgeDeleteLinks
    \/ PurgeDataCommit
    \/ PurgeDataError
    \/ PurgeFiles
    \/ PurgeFilesError
    \/ Crash
    \/ Exit

SpecRecovery == Init /\ [][NextRecovery]_vars

\* _process_cn_file's loop over the lines of the file named name, from line
\* n: acc is [ raised, st, cache, other, data, consumed, ignored, invalid ].
RECURSIVE ProcessLines(_, _, _)
ProcessLines(name, n, acc) ==
    IF n > Len(disk[name].lines) \/ acc.raised THEN acc
    ELSE LET event == disk[name].lines[n]
         IN  IF ~ event.valid
             THEN ProcessLines(name, n + 1, [ acc EXCEPT !.invalid = @ + 1 ])
             ELSE IF event.bot \/ ~ event.banner_shown
             THEN ProcessLines(name, n + 1, [ acc EXCEPT !.ignored = @ + 1 ])
             ELSE LET r == add_event(event, 100 \div sample_rate(name),
                                     acc.st, acc.cache, acc.other, acc.data)
                  IN  ProcessLines(name, n + 1,
                        [ raised |-> r.raised, st |-> r.st, cache |-> r.cache,
                          other |-> r.other, data |-> r.data,
                          consumed |-> IF r.raised THEN acc.consumed
                                       ELSE acc.consumed + 1,
                          ignored |-> acc.ignored, invalid |-> acc.invalid ])

\* CNAggregationStep.save's loop: each cell is upserted and linked to the
\* file.
RECURSIVE SaveCells(_, _, _)
SaveCells(st, file_id, cells) ==
    IF cells = << >> THEN st
    ELSE LET s1 == InsertOrUpdateDataCell(st, Head(cells))
         IN  SaveCells(InsertFileLink(s1, file_id, LastRowId(s1, Head(cells)),
                                      Head(cells).event_count),
                       file_id, Tail(cells))

\* The loop of consume_events over the files named names, by one process
\* that nothing interrupts: run is [ raised, st, cache, other ].
RECURSIVE UninterruptedRun(_, _)
UninterruptedRun(names, run) ==
    IF names = << >> \/ run.raised THEN run
    ELSE
    LET name == Head(names)
        db_id == run.st.next_file
        st1 == InsertFile(run.st, name, CENTRAL_NOTICE, disk[name].time,
                          PROCESSING, NULL, NULL, NULL, NULL)
        ch1 == set_obj(run.cache, _make_cache_key(name), db_id)
        r == ProcessLines(name, 1,
               [ raised |-> FALSE, st |-> st1, cache |-> ch1,
                 other |-> run.other, data |-> << >>,
                 consumed |-> 0, ignored |-> 0, invalid |-> 0 ])
        f == [ filename |-> name, time |-> disk[name].time,
               event_type |-> CENTRAL_NOTICE,
               sample_rate |-> sample_rate(name), status |-> CONSUMED,
               consumed_events |-> r.consumed, ignored_events |-> r.ignored,
               invalid_events |-> r.invalid, db_id |-> db_id ]
    IN  IF known(run.st, run.cache, name)
        THEN UninterruptedRun(Tail(names), run)
        ELSE IF SampleRateRaises(name)
        THEN [ raised |-> TRUE, st |-> st1, cache |-> ch1, other |-> run.other ]
        ELSE IF r.raised
        THEN [ raised |-> TRUE, st |-> r.st, cache |-> r.cache, other |-> r.other ]
        ELSE UninterruptedRun(Tail(names),
               [ raised |-> FALSE,
                 st |-> UpdateFile(SaveCells(r.st, db_id, r.data), f),
                 cache |-> r.cache, other |-> r.other ])

\* One uninterrupted call of consume_events for CentralNotice on the empty
\* database, up to to_time.
CleanRun(to_time) ==
    UninterruptedRun(file_infos(CENTRAL_NOTICE, NULL, to_time),
                     [ raised |-> FALSE, st |-> EmptyStore, cache |-> {},
                       other |-> NoOther ])

\* The keys of the rows of bannerimpressions, as codes, with their counts.
CellCounts(st) ==
    { [ key |-> KeyOfRow(st, row), count |-> row.count ] : row \in st.cells }

\* The consumed CentralNotice files, with all but their ids.
ConsumedRecords(st) ==
    { [ filename |-> f.filename, timestamp |-> f.timestamp,
        sample_rate |-> f.sample_rate, consumed_events |-> f.consumed_events,
        ignored_events |-> f.ignored_events,
        invalid_events |-> f.invalid_events ] :
      f \in ConsumedOf(st, CENTRAL_NOTICE) }

\* The file names of a sequence, as a set.
NamesOf(seq) == { seq[i] : i \in 1..Len(seq) }

\* C33: whatever calls of consume_events with from_latest and of
\* purge_incomplete came before, and wherever processes were killed in
\* them, a call with from_latest has before it, with the files consumed
\* already, every CentralNotice file up to its to_time; and when it returns,
\* the committed store has the cell keys with the counts and the consumed
\* files with the counters of one uninterrupted call on the empty database
\* up to that time, and no CentralNotice file with processing status.
C33_RecoveryEqualsCleanRun ==
    /\ [][ ( pc \in { "idle", "loop" } /\ pc' = "loop" )
           => \E to_time \in Times \cup { NULL } :
                { f.filename : f \in ConsumedOf(db', CENTRAL_NOTICE) }
                  \cup NamesOf(todo')
                  = Within(CENTRAL_NOTICE, NULL, to_time)
         ]_vars
    /\ [][ NormalReturn
           => \E to_time \in Times \cup { NULL } :
                /\ { f.filename : f \in ConsumedOf(db', CENTRAL_NOTICE) }
                     = Within(CENTRAL_NOTICE, NULL, to_time)
                /\ ~ CleanRun(to_time).raised
                /\ CellCounts(db') = CellCounts(CleanRun(to_time).st)
                /\ ConsumedRecords(db') = ConsumedRecords(CleanRun(to_time).st)
                /\ ProcessingOf(db', CENTRAL_NOTICE) = {}
         ]_vars

\* C33 witness: a call has returned with two files consumed, after the row
\* of a file was purged; the second file has the row made by the call that
\* ingested it again, and the cell counts are those of the clean run.
C33_Witness ==
    /\ pc = "idle"
    /\ cache # {}
    /\ SomeFilePurged(db)
    /\ Cardinality(ConsumedOf(db, CENTRAL_NOTICE)) = 2
    /\ FilesWithStatus(db, PROCESSING) = {}
    /\ CellCounts(db) = CellCounts(CleanRun(2).st)
    /\ \E row \in db.cells : row.count = 6

-----------------------------------------------------------------------------
(* Referential integrity *)

\* C34: in every committed state, each link row has the id of a
\* CentralNotice file row and the id of exactly one row of
\* bannerimpressions, and each raw row and each dedup row has the id of a
\* LandingPage file row.
C34_ReferentialIntegrity ==
    /\ \A i \in 1..Len(db.links) :
         /\ \E f \in db.files :
              /\ f.id = db.links[i].file_id
              /\ f.impressiontype = CENTRAL_NOTICE
         /\ Cardinality({ row \in db.cells :
                            row.id = db.links[i].banner_imp_cell_id }) = 1
    /\ \A i \in 1..Len(db.raw) :
         \E f \in db.files :
           /\ f.id = db.raw[i].file_id
           /\ f.impressiontype = LANDING_PAGE
    /\ \A u \in db.uniq :
         \E f \in db.files :
           /\ f.id = u.file_id
           /\ f.impressiontype = LANDING_PAGE

\* C34 witness: purge_incomplete has committed its data purge and not yet
\* deleted the file rows: a CentralNotice file with processing status has
\* no link left, a cell it had made is gone, and a consumed file has its
\* link and cell.
C34_Witness ==
    /\ pc = "purge_files"
    /\ event_type = CENTRAL_NOTICE
    /\ SomeCellDeleted(db)
    /\ \E f \in ProcessingOf(db, CENTRAL_NOTICE) : LinksOf(db, f.id) = << >>
    /\ \E f \in ConsumedOf(db, CENTRAL_NOTICE) :
         /\ LinksOf(db, f.id) # << >>
         /\ \E row \in db.cells :
              row.id = LinksOf(db, f.id)[1].banner_imp_cell_id

-----------------------------------------------------------------------------
(* purge_incomplete again *)

\* The statements of delete_with_processing_status of the event type's
\* module, in their order: the data purge purge_incomplete commits first.
PurgeData(st, type) ==
    IF type = CENTRAL_NOTICE
    THEN DeleteProcessingLinks(DeleteZeroCells(SubtractCounts(st)))
    ELSE DeleteProcessingUniq(DeleteProcessingRaw(st))

\* purge_incomplete that nothing interrupts.
PurgeAll(st, type) == DeleteProcessingFiles(PurgeData(st, type), type)

\* C35: the two commits of purge_incomplete are those of the data purge and
\* of the deletion of the file rows; from every committed state, the data
\* purge done again changes nothing more, so that purge_incomplete run
\* again after its data purge was committed gives the store the
\* uninterrupted purge gives (a kill before the second commit leaves the
\* store of the first); and from a state without processing row of the
\* event type, purge_incomplete gives the state it began in.
C35_PurgeIsRepeatable ==
    /\ [] \A type \in EventTypes :
            /\ PurgeData(PurgeData(db, type), type) = PurgeData(db, type)
            /\ PurgeAll(PurgeData(db, type), type) = PurgeAll(db, type)
            /\ ProcessingOf(db, type) = {} => PurgeAll(db, type) = db
    /\ [][ /\ ( pc = "purge_commit" /\ pc' = "purge_files" )
              => /\ db' = PurgeData(db, event_type)
                 /\ PurgeData(db', event_type) = db'
                 /\ ProcessingOf(db, event_type) = {} => db' = db
           /\ ( pc = "purge_files" /\ pc' = "idle" )
              => /\ db' = PurgeAll(db, event_type) \/ db' = db
                 /\ ProcessingOf(db, event_type) = {} => db' = db
         ]_vars

\* C35 witness: a data purge that deleted a cell was committed and no file
\* row has been deleted since; purge_incomplete runs again and its data
\* purge has changed nothing, the file row with processing status being
\* still there.
C35_Witness ==
    /\ pc = "purge_commit"
    /\ event_type = CENTRAL_NOTICE
    /\ tx = db
    /\ SomeCellDeleted(db)
    /\ ~ SomeFilePurged(db)
    /\ ProcessingOf(db, CENTRAL_NOTICE) # {}
    /\ \E f \in ConsumedOf(db, CENTRAL_NOTICE) : LinksOf(db, f.id) # << >>

-----------------------------------------------------------------------------
(* What purge_incomplete leaves *)

\* The other event type.
OtherType(type) ==
    IF type = CENTRAL_NOTICE THEN LANDING_PAGE ELSE CENTRAL_NOTICE

\* What a store holds of an event type: the file rows of the type, the
\* links, raw rows and dedup rows of those files and, for CentralNotice,
\* the rows of bannerimpressions.
PartOf(st, type) ==
    LET ids == { f.id : f \in { g \in st.files : g.impressiontype = type } }
    IN  [ files |-> { f \in st.files : f.impressiontype = type },
          links |-> SelectSeq(st.links, LAMBDA l : l.file_id \in ids),
          raw |-> SelectSeq(st.raw, LAMBDA r : r.file_id \in ids),
          uniq |-> { u \in st.uniq : u.file_id \in ids },
          cells |-> IF type = CENTRAL_NOTICE THEN st.cells ELSE {} ]

\* Store t has what store s has of the other event type, the consumed file
\* rows of the event type and the dimension rows.
SameFrame(s, t, type) ==
    /\ PartOf(t, OtherType(type)) = PartOf(s, OtherType(type))
    /\ ConsumedOf(t, type) = ConsumedOf(s, type)
    /\ \A tbl \in DimensionTables : t[tbl] = s[tbl]

\* C36: every step of purge_incomplete for an event type, the kill and the
\* error among them, leaves in the store and in the transaction all that is
\* of the other event type (file rows of every status, cells, links, raw
\* rows and dedup rows of its files), the file rows of its own type with
\* consumed status, and the dimension rows.
C36_PurgeLeavesTheOtherKind ==
    [][ Purging => /\ SameFrame(db, db', event_type)
                   /\ SameFrame(tx, tx', event_type) ]_vars

\* C36 witness: purge_incomplete for CentralNotice has committed a data
\* purge that deleted a cell, while a LandingPage file with processing
\* status has its raw rows and its dedup row.
C36_Witness ==
    /\ pc = "purge_files"
    /\ event_type = CENTRAL_NOTICE
    /\ SomeCellDeleted(db)
    /\ ProcessingOf(db, CENTRAL_NOTICE) # {}
    /\ \E f \in ProcessingOf(db, LANDING_PAGE) :
         /\ RawOf(db, f.id) # << >>
         /\ \E u \in db.uniq : u.file_id = f.id

-----------------------------------------------------------------------------
(* The cache of LogFile objects *)

\* The file named filename has a row with this id, in the store and in the
\* transaction.
HasRow(filename, db_id) ==
    /\ \E f \in db.files : f.filename = filename /\ f.id = db_id
    /\ \E f \in tx.files : f.filename = filename /\ f.id = db_id

\* C37: in every state of a process, whatever calls of consume_events and
\* purge_incomplete it has made, a file name that known answers for from
\* the cache has a row in the files table, with the id of the cached
\* object; and when the object save is given passes the sanity check of
\* save, the row save updates exists.
C37_CacheIsCoherent ==
    /\ \A filename \in DOMAIN disk :
         is_cached(cache, _make_cache_key(filename))
           => /\ known(tx, {}, filename)
              /\ HasRow(filename, get_obj(cache, _make_cache_key(filename)))
    /\ ( pc = "mark"
         /\ get_obj(cache, _make_cache_key(file.filename)) = file.db_id )
         => HasRow(file.filename, file.db_id)

\* C37 witness: the row of a file that a killed process had left has been
\* purged; the process has consumed a LandingPage file, which is in the
\* cache with its row, and in a later call of consume_events, for
\* CentralNotice, the file being saved passes the sanity check.
C37_Witness ==
    /\ pc = "mark"
    /\ event_type = CENTRAL_NOTICE
    /\ SomeFilePurged(db)
    /\ get_obj(cache, _make_cache_key(file.filename)) = file.db_id
    /\ \E f \in ConsumedOf(db, LANDING_PAGE) :
         /\ is_cached(cache, _make_cache_key(f.filename))
         /\ f.id < file.db_id

-----------------------------------------------------------------------------
(* The link rows save() writes *)

\* The step of CNAggregationStep.save that writes the cell at save_pos.
SaveCellStep ==
    /\ pc = "save"
    /\ pc' = "save"
    /\ save_pos' = save_pos + 1

\* No two link rows of the store have the same file and the same cell.
OneLinkPerFileAndCell(st) ==
    \A i, j \in 1..Len(st.links) :
      ( /\ st.links[i].file_id = st.links[j].file_id
        /\ st.links[i].banner_imp_cell_id = st.links[j].banner_imp_cell_id )
        => i = j

\* C38: the step of save() that writes a cell appends one link row, of the
\* file being saved, whose banner_imp_cell_id is the id of the one row of
\* bannerimpressions that has the key of the cell, whether the statement
\* inserted that row or added to it, and the file had no link to that row;
\* so that in the store and in the transaction no file has two links to one
\* cell.
C38_LinkTargetsTheCellOfItsKey ==
    /\ [][ SaveCellStep
           => LET cell == data[save_pos]
                  link == tx'.links[Len(tx'.links)]
              IN  /\ Len(tx'.links) = Len(tx.links) + 1
                  /\ link.file_id = file.db_id
                  /\ \E row \in tx'.cells : SameKey(row, cell)
                  /\ \A row \in tx'.cells :
                       SameKey(row, cell) <=> row.id = link.banner_imp_cell_id
                  /\ \A i \in 1..Len(tx.links) :
                       ~ ( /\ tx.links[i].file_id = file.db_id
                           /\ tx.links[i].banner_imp_cell_id
                                = link.banner_imp_cell_id )
         ]_vars
    /\ [] ( OneLinkPerFileAndCell(db) /\ OneLinkPerFileAndCell(tx) )

\* C38 witness: save() has added the count of its first cell to a row of
\* the store that is not the row inserted last, and linked the file to that
\* row; its second cell is still to be written.
C38_Witness ==
    /\ pc = "save"
    /\ save_pos = 2
    /\ Len(data) = 2
    /\ LET link == tx.links[Len(tx.links)]
       IN  /\ Len(tx.links) = Len(db.links) + 1
           /\ link.file_id = file.db_id
           /\ link.banner_imp_cell_id < db.next_cell - 1
           /\ tx.next_cell = db.next_cell
           /\ \E row \in tx.cells :
                /\ row.id = link.banner_imp_cell_id
                /\ SameKey(row, data[1])
                /\ \E old \in db.cells :
                     old.id = row.id /\ row.count = old.count + data[1].event_count

-----------------------------------------------------------------------------
(* Raw rows and dedup rows *)

\* The events of a file that _process_lp_file gives to the write step, in
\* the order of the lines.
WrittenEvents(filename) ==
    SelectSeq(disk[filename].lines,
              LAMBDA e : e.valid /\ ~ Ignored(LANDING_PAGE, e))

\* The ( utm_source, contact_id ) of the events whose raw rows the store has
\* for the file of row f: the raw rows of a file are those of its first
\* written events, in their order.
KeysCarried(st, f) ==
    { [ utm_source |-> WrittenEvents(f.filename)[k].utm_source,
        contact_id |-> WrittenEvents(f.filename)[k].contact_id ] :
      k \in { i \in 1..Len(RawOf(st, f.id)) :
                i <= Len(WrittenEvents(f.filename)) } }

\* donatewiki_unique has a row with the key.
HasDedup(st, key) ==
    \E u \in st.uniq : /\ u.utm_source = key.utm_source
                       /\ u.contact_id = key.contact_id

\* C39: in every committed state the raw rows of a LandingPage file are
\* those of its first written events, and the ( utm_source, contact_id ) of
\* each of those events has a row in donatewiki_unique; and a dedup row that
\* the data purge of purge_incomplete deletes is owned by a file with
\* processing status and has a key that no raw row of a consumed file
\* carries.
C39_RawKeyHasDedupRow ==
    /\ [] \A f \in { g \in db.files : g.impressiontype = LANDING_PAGE } :
            /\ Len(RawOf(db, f.id)) <= Len(WrittenEvents(f.filename))
            /\ \A k \in 1..Len(RawOf(db, f.id)) :
                 k <= Len(WrittenEvents(f.filename))
                   => /\ RawOf(db, f.id)[k].utm_source
                           = WrittenEvents(f.filename)[k].utm_source
                      /\ RawOf(db, f.id)[k].timestamp
                           = WrittenEvents(f.filename)[k].time
            /\ \A key \in KeysCarried(db, f) : HasDedup(db, key)
    /\ [][ ( pc = "purge_commit" /\ pc' = "purge_files" )
           => \A u \in db.uniq \ db'.uniq :
                /\ \E f \in FilesWithStatus(db, PROCESSING) : f.id = u.file_id
                /\ \A f \in ConsumedOf(db, LANDING_PAGE) :
                     [ utm_source |-> u.utm_source,
                       contact_id |-> u.contact_id ] \notin KeysCarried(db, f)
         ]_vars

\* C39 witness: the data purge for LandingPage is about to be committed.  It
\* has deleted the three raw rows of a file with processing status and the
\* dedup row that file owned, and left the dedup row of a key that two of
\* those raw rows carried and that a raw row of a consumed file carries.
C39_Witness ==
    /\ pc = "purge_commit"
    /\ event_type = LANDING_PAGE
    /\ \E f \in ProcessingLP(db), g \in ConsumedOf(db, LANDING_PAGE) :
         /\ Len(RawOf(db, f.id)) = 3
         /\ RawOf(tx, f.id) = << >>
         /\ \E u \in db.uniq \ tx.uniq : u.file_id = f.id
         /\ \E key \in KeysCarried(db, f) \cap KeysCarried(db, g) :
              /\ HasDedup(tx, key)
              /\ \A u \in tx.uniq : u.file_id = g.id
         /\ RawOf(tx, g.id) # << >>

-----------------------------------------------------------------------------
(* Events without banner, campaign or country *)

\* C40: the step that reads a valid CentralNotice event that is not
\* ignored, the banner, the campaign or the country of the event being
\* absent or not, ends without error, with the event counted in
\* consumed_events and its multiplier added to a cell of the aggregation.
C40_AddEventNeverRaises ==
    [][ ( /\ CNLineStep
          /\ Lines(file)[line_no].valid
          /\ ~ Ignored(CENTRAL_NOTICE, Lines(file)[line_no]) )
        => /\ pc' = "lines"
           /\ err' = err
           /\ file' = [ file EXCEPT !.consumed_events = @ + 1 ]
           /\ SumCounts([ i \in 1..Len(data') |-> [ count |-> data'[i].event_count ] ])
                = SumCounts([ i \in 1..Len(data) |-> [ count |-> data[i].event_count ] ])
                  + _sample_rate_multiplier(file)
      ]_vars

\* C40 witness: the run has ended with the error of add_event on a valid
\* event, shown and not of a bot, that has no country; nothing of the event
\* is in the aggregation and the row of the file has processing status.
C40_Witness ==
    /\ pc = "failed"
    /\ err = "add_event"
    /\ line_no = 2
    /\ Lines(file)[1].valid
    /\ ~ Ignored(CENTRAL_NOTICE, Lines(file)[1])
    /\ Lines(file)[1].country_code = None
    /\ Lines(file)[1].banner # None
    /\ data = << >>
    /\ \E f \in ProcessingOf(db, CENTRAL_NOTICE) :
         /\ f.id = file.db_id
         /\ f.filename = file.filename

====
